---- MODULE Spec2Model ----
(***************************************************************************)
(* Model of the Combined User Interface (CUI), Application/ui/cui.c:       *)
(* client registry, button / LED ownership tables, the serial write path   *)
(* and the menu registry with its synthetic Multi-Menu.                    *)
(***************************************************************************)
EXTENDS Integers, Sequences, FiniteSets, TLC

(***************************************************************************)
(* Capacities and input sets                                               *)
(***************************************************************************)
\* cui.h capacity of gClientHandles[] (cui.c:171)
MAX_CLIENTS == 2
\* cui.h capacity of gMenuResources[] (cui.c:215)
MAX_REGISTERED_MENUS == 3
\* ti_drivers_config.h: number of buttons / LEDs of the board
Button_count == 1
LED_count == 1
\* number of preemptible tasks that call into the module concurrently
NumTasks == 2
\* number of CUI_writeString calls all tasks issue in the serial model
MaxWrites == 2
\* largest status-line quota a client passes to CUI_clientOpen
MaxQuota == 2

NULL == 0
Tasks == 1..NumTasks

\* client names as byte strings (without the terminator)
ClientNames == {<<65>>, <<66>>, <<67>>, <<33, 33>>, <<>>}
\* button callbacks an application may install (NULL included)
AppCbs == {NULL, 1}

\* CUI_retVal_t
CUI_SUCCESS == "CUI_SUCCESS"
CUI_FAILURE == "CUI_FAILURE"
CUI_INVALID_CLIENT_HANDLE == "CUI_INVALID_CLIENT_HANDLE"
CUI_INVALID_PARAM == "CUI_INVALID_PARAM"
CUI_MODULE_UNINITIALIZED == "CUI_MODULE_UNINITIALIZED"
CUI_NOT_MANAGING_BTNS == "CUI_NOT_MANAGING_BTNS"
CUI_NOT_MANAGING_LEDS == "CUI_NOT_MANAGING_LEDS"
CUI_NOT_MANAGING_UART == "CUI_NOT_MANAGING_UART"
CUI_MAX_MENUS_REACHED == "CUI_MAX_MENUS_REACHED"
CUI_RESOURCE_NOT_ACQUIRED == "CUI_RESOURCE_NOT_ACQUIRED"
CUI_PREV_WRITE_UNFINISHED == "CUI_PREV_WRITE_UNFINISHED"
CUI_UART_FAILURE == "CUI_UART_FAILURE"
CUI_MISSING_UART_UPDATE_FN == "CUI_MISSING_UART_UPDATE_FN"

VARIABLES
    gModuleInitialized, gManageBtns, gManageLeds, gManageUart,
    gClientHandles,     \* [0..MAX_CLIENTS-1 -> uint32]
    gMaxStatusLines,    \* [0..MAX_CLIENTS-1 -> Nat]
    gClientsSem,        \* binary semaphore count
    quotaPassed,        \* history: the quota passed to the CUI_clientOpen that returned a handle, -1: none
    gButtonResources,   \* [0..Button_count-1 -> [clientHash, appCb]]
    gLedResources,      \* [0..LED_count-1 -> [clientHash]]
    ledState,           \* LED driver state of each LED
    gUartWriteComplete, gUartSem,
    uartInFlight,       \* frames handed to UART_write, completion not yet signaled
    uartSent,           \* every frame ever handed to UART_write
    gMenuResources,     \* [0..MAX_REGISTERED_MENUS-1 -> [pMenu, clientHash]]
    gMenuSem,
    gpCurrMenu, gpMainMenu, gCurrMenuItemEntry, gPrevMenuItemEntry,
    menus,              \* the CUI_menu_t objects, cuiMultiMenu included
    currDispBuff,
    regOrder,           \* history: registered menus, oldest first
    everMulti,          \* history: a second menu has been registered at some time
    snap,               \* history: the single-root state a second registration replaced
    pc, local,          \* per task: position inside a call, and its locals
    lastCall,           \* the last call that returned, with its return value
    gUartTxBuffer,      \* the input holding buffer, [0..CUI_NUM_UART_CHARS-1 -> byte]
    gCursorActive,
    readArmed,          \* a UART_read is outstanding
    lastRead,           \* history: the size of the completion of the read armed last, -1 while it is armed
    updatePending,      \* the menu's uartUpdateFn ran, CUI_processMenuUpdate is due
    lastInput,          \* history: what the last CUI_processMenuUpdate decoded, and from which first byte
    delivered,          \* history: the calls it made to item handlers, in order
    gStatusLineResources, \* [0..MAX_CLIENTS-1 -> array of status lines, <<>> for NULL]
    freed,              \* history: the slots whose array of status lines has been freed
    gStatusSem

vars == << gModuleInitialized, gManageBtns, gManageLeds, gManageUart,
           gClientHandles, gMaxStatusLines, gClientsSem, quotaPassed,
           gButtonResources, gLedResources, ledState,
           gUartWriteComplete, gUartSem, uartInFlight, uartSent,
           gMenuResources, gMenuSem,
           gpCurrMenu, gpMainMenu, gCurrMenuItemEntry, gPrevMenuItemEntry,
           menus, currDispBuff, regOrder, everMulti, snap, pc, local, lastCall,
           gUartTxBuffer, gCursorActive, readArmed, lastRead, updatePending, lastInput, delivered,
           gStatusLineResources, freed, gStatusSem >>

clientVars == << gClientHandles, gMaxStatusLines, gClientsSem, quotaPassed >>
flagVars == << gModuleInitialized, gManageBtns, gManageLeds, gManageUart >>
rscVars == << gButtonResources, gLedResources, ledState >>
uartVars == << gUartWriteComplete, gUartSem, uartInFlight, uartSent >>
menuVars == << gMenuResources, gMenuSem, gpCurrMenu, gpMainMenu,
               gCurrMenuItemEntry, gPrevMenuItemEntry, menus, currDispBuff,
               regOrder, everMulti, snap >>
taskVars == << pc, local >>
inputVars == << gUartTxBuffer, gCursorActive, readArmed, lastRead, updatePending, lastInput, delivered >>
statusVars == << gStatusLineResources, freed, gStatusSem >>

(***************************************************************************)
(* Client registry                                                         *)
(***************************************************************************)
RECURSIVE SumBytes(_)
SumBytes(s) == IF s = <<>> THEN 0 ELSE Head(s) + SumBytes(Tail(s))

\* the additive checksum of the name, terminator (0) included; the sum of the
\* few bytes of a name of ClientNames stays far below the uint32_t range
NameHash(name) == SumBytes(name) + 0

CUI_getClientIndex(h) ==
    IF \E i \in 0..(MAX_CLIENTS - 1) : gClientHandles[i] = h
    THEN CHOOSE i \in 0..(MAX_CLIENTS - 1) :
            /\ gClientHandles[i] = h
            /\ \A j \in 0..(i - 1) : gClientHandles[j] # h
    ELSE -1

CUI_validateHandle(h) ==
    IF h = NULL THEN CUI_INVALID_CLIENT_HANDLE
    ELSE IF CUI_getClientIndex(h) = -1 THEN CUI_INVALID_CLIENT_HANDLE
    ELSE CUI_SUCCESS

CUI_publicAPIChecks(h) ==
    IF ~gModuleInitialized THEN CUI_MODULE_UNINITIALIZED
    ELSE CUI_validateHandle(h)

CUI_publicBtnsAPIChecks(h) ==
    IF ~gManageBtns THEN CUI_NOT_MANAGING_BTNS ELSE CUI_publicAPIChecks(h)

CUI_publicLedsAPIChecks(h) ==
    IF ~gManageLeds THEN CUI_NOT_MANAGING_LEDS ELSE CUI_publicAPIChecks(h)

CUI_publicUartAPIChecks(h) ==
    IF ~gManageUart THEN CUI_NOT_MANAGING_UART ELSE CUI_publicAPIChecks(h)

Returned(op, client, arg, val) ==
    lastCall' = [op |-> op, client |-> client, arg |-> arg, ret |-> val,
                 seq |-> 1 - lastCall.seq]

\* CUI_rscStatus_t
CUI_RELEASED == "CUI_RELEASED"
CUI_ACQUIRED == "CUI_ACQUIRED"
\* a CUI_statusLineResource_t after memset(0)
ZeroLine == [clientHash |-> NULL, lineOffset |-> 0, status |-> CUI_RELEASED]

\* the holding buffer of CUI_NUM_UART_CHARS bytes, cleared
CUI_NUM_UART_CHARS == 5
ZeroBuffer == [i \in 0..(CUI_NUM_UART_CHARS - 1) |-> 0]

\* CUI_clientOpen; a call that finds gClientsSem taken blocks in Semaphore_pend
CUI_clientOpen(name, maxLines) ==
    LET numClients == Cardinality({i \in 0..(MAX_CLIENTS - 1) : gClientHandles[i] # NULL})
        hash == NameHash(name)
    IN  /\ UNCHANGED << flagVars, inputVars, gStatusSem, rscVars, uartVars, menuVars, taskVars >>
        /\ IF ~gModuleInitialized
           THEN /\ Returned("clientOpen", NULL, name, NULL)
                /\ UNCHANGED << clientVars, gStatusLineResources, freed >>
           ELSE /\ gClientsSem = 1
                /\ IF numClients >= MAX_CLIENTS
                   THEN \* returns with the semaphore still taken
                        /\ gClientsSem' = 0
                        /\ UNCHANGED << gClientHandles, gMaxStatusLines, quotaPassed,
                                        gStatusLineResources, freed >>
                        /\ Returned("clientOpen", NULL, name, NULL)
                   ELSE /\ gClientHandles' = [gClientHandles EXCEPT ![numClients] = hash]
                        /\ gMaxStatusLines' =
                              IF maxLines # 0 /\ gManageUart
                              THEN [gMaxStatusLines EXCEPT ![numClients] = maxLines]
                              ELSE gMaxStatusLines
                        \* malloc (taken to succeed) and memset of the client's lines
                        /\ gStatusLineResources' =
                              IF maxLines # 0 /\ gManageUart
                              THEN [gStatusLineResources EXCEPT
                                       ![numClients] = [j \in 0..(maxLines - 1) |-> ZeroLine]]
                              ELSE gStatusLineResources
                        /\ freed' = IF maxLines # 0 /\ gManageUart
                                    THEN freed \ {numClients} ELSE freed
                        /\ gClientsSem' = 1
                        /\ quotaPassed' = IF hash # NULL
                                          THEN [quotaPassed EXCEPT ![hash] = maxLines]
                                          ELSE quotaPassed
                        /\ Returned("clientOpen", hash, name, hash)

\* the handles of the clients that are open
OpenHandles == {gClientHandles[i] : i \in 0..(MAX_CLIENTS - 1)} \ {NULL}

\* the handles a caller may present: those of the names, and NULL
Handles == {NameHash(n) : n \in ClientNames}

(***************************************************************************)
(* Buttons                                                                 *)
(***************************************************************************)
BtnIdx == 0..(Button_count - 1)
LedIdx == 0..(LED_count - 1)

CUI_acquireBtn_overwrite(h, i, cb) ==
    [ret |-> CUI_SUCCESS,
     tbl |-> [gButtonResources EXCEPT ![i] = [clientHash |-> h, appCb |-> cb]]]

CUI_acquireBtn(h, i, cb) ==
    IF gButtonResources[i].clientHash # NULL
    THEN [ret |-> CUI_FAILURE, tbl |-> gButtonResources]
    ELSE [ret |-> CUI_SUCCESS,
          tbl |-> [gButtonResources EXCEPT ![i] = [clientHash |-> h, appCb |-> cb]]]

CUI_btnResourceRequest(h, i, cb) ==
    LET chk == CUI_publicBtnsAPIChecks(h)
        acq == CUI_acquireBtn(h, i, cb)
    IN  /\ UNCHANGED << flagVars, inputVars, statusVars, clientVars, gLedResources, ledState,
                        uartVars, menuVars, taskVars >>
        /\ IF chk # CUI_SUCCESS
           THEN /\ UNCHANGED gButtonResources
                /\ Returned("btnRequest", h, i, chk)
           ELSE /\ gButtonResources' = acq.tbl
                /\ Returned("btnRequest", h, i, acq.ret)

CUI_btnSetCb(h, i, cb) ==
    LET chk == CUI_publicBtnsAPIChecks(h)
    IN  /\ UNCHANGED << flagVars, inputVars, statusVars, clientVars, gLedResources, ledState,
                        uartVars, menuVars, taskVars >>
        /\ IF chk # CUI_SUCCESS
           THEN /\ UNCHANGED gButtonResources
                /\ Returned("btnSetCb", h, i, chk)
           ELSE IF h # gButtonResources[i].clientHash
           THEN /\ UNCHANGED gButtonResources
                /\ Returned("btnSetCb", h, i, CUI_INVALID_CLIENT_HANDLE)
           ELSE /\ gButtonResources' = [gButtonResources EXCEPT ![i].appCb = cb]
                /\ Returned("btnSetCb", h, i, CUI_SUCCESS)

\* CUI_btnGetValue(_clientHandle, _index, _pBtnState): the checks of the handle
\* and of the owner are commented out, the call reads the pin and succeeds
CUI_btnGetValue(h, i) ==
    /\ UNCHANGED << flagVars, inputVars, statusVars, clientVars, rscVars, uartVars,
                    menuVars, taskVars >>
    /\ Returned("btnGetValue", h, i, CUI_SUCCESS)

CUI_btnResourceRelease(h, i) ==
    LET chk == CUI_publicBtnsAPIChecks(h)
    IN  /\ UNCHANGED << flagVars, inputVars, statusVars, clientVars, gLedResources, ledState,
                        uartVars, menuVars, taskVars >>
        /\ IF chk # CUI_SUCCESS
           THEN /\ UNCHANGED gButtonResources
                /\ Returned("btnRelease", h, i, chk)
           ELSE IF h # gButtonResources[i].clientHash
           THEN /\ UNCHANGED gButtonResources
                /\ Returned("btnRelease", h, i, CUI_INVALID_CLIENT_HANDLE)
           ELSE /\ gButtonResources' =
                      [gButtonResources EXCEPT ![i] = [clientHash |-> NULL, appCb |-> NULL]]
                /\ Returned("btnRelease", h, i, CUI_SUCCESS)

(***************************************************************************)
(* LEDs                                                                    *)
(***************************************************************************)
CUI_acquireLed(h, i) ==
    IF gLedResources[i].clientHash # NULL
    THEN [ret |-> CUI_FAILURE, tbl |-> gLedResources]
    ELSE [ret |-> CUI_SUCCESS, tbl |-> [gLedResources EXCEPT ![i].clientHash = h]]

CUI_ledResourceRequest(h, i) ==
    LET chk == CUI_publicLedsAPIChecks(h)
        acq == CUI_acquireLed(h, i)
    IN  /\ UNCHANGED << flagVars, inputVars, statusVars, clientVars, gButtonResources, ledState,
                        uartVars, menuVars, taskVars >>
        /\ IF chk # CUI_SUCCESS
           THEN /\ UNCHANGED gLedResources
                /\ Returned("ledRequest", h, i, chk)
           ELSE /\ gLedResources' = acq.tbl
                /\ Returned("ledRequest", h, i, acq.ret)

\* the ownership test shared by release and by every LED state call
LedOwnerCheck_free(h, i) ==
    IF gLedResources[i].clientHash # NULL /\ h # gLedResources[i].clientHash
    THEN CUI_FAILURE ELSE CUI_SUCCESS

LedOwnerCheck(h, i) ==
    IF h # gLedResources[i].clientHash THEN CUI_INVALID_CLIENT_HANDLE ELSE CUI_SUCCESS

CUI_ledResourceRelease(h, i) ==
    LET chk == CUI_publicLedsAPIChecks(h)
    IN  /\ UNCHANGED << flagVars, inputVars, statusVars, clientVars, gButtonResources,
                        uartVars, menuVars, taskVars >>
        /\ IF chk # CUI_SUCCESS
           THEN /\ UNCHANGED << gLedResources, ledState >>
                /\ Returned("ledRelease", h, i, chk)
           ELSE IF LedOwnerCheck(h, i) # CUI_SUCCESS
           THEN /\ UNCHANGED << gLedResources, ledState >>
                /\ Returned("ledRelease", h, i, LedOwnerCheck(h, i))
           ELSE /\ ledState' = [ledState EXCEPT ![i] = "off"]
                /\ gLedResources' = [gLedResources EXCEPT ![i].clientHash = NULL]
                /\ Returned("ledRelease", h, i, CUI_SUCCESS)

\* CUI_ledOn, CUI_ledOff, CUI_ledToggle, CUI_ledBlink: op names the call
LedNewState(op, s) ==
    CASE op = "ledOn" -> "on"
      [] op = "ledOff" -> "off"
      [] op = "ledToggle" -> IF s = "on" THEN "off" ELSE "on"
      [] op = "ledBlink" -> "blinking"

LedOps == {"ledOn", "ledOff", "ledToggle", "ledBlink"}

CUI_ledControl(op, h, i) ==
    LET chk == CUI_publicLedsAPIChecks(h)
    IN  /\ UNCHANGED << flagVars, inputVars, statusVars, clientVars, gButtonResources, gLedResources,
                        uartVars, menuVars, taskVars >>
        /\ IF chk # CUI_SUCCESS
           THEN /\ UNCHANGED ledState
                /\ Returned(op, h, i, chk)
           ELSE IF LedOwnerCheck(h, i) # CUI_SUCCESS
           THEN /\ UNCHANGED ledState
                /\ Returned(op, h, i, LedOwnerCheck(h, i))
           ELSE /\ ledState' = [ledState EXCEPT ![i] = LedNewState(op, ledState[i])]
                /\ Returned(op, h, i, CUI_SUCCESS)

(***************************************************************************)
(* Serial transport                                                        *)
(***************************************************************************)
\* number of completion polls of CUI_writeString
PollLimit_eleven == 10 + 1

PollLimit == 10

\* UartWriteCallback: the driver signals the completion of one issued write
UartWriteCallback ==
    /\ uartInFlight # {}
    /\ \E f \in uartInFlight : uartInFlight' = uartInFlight \ {f}
    /\ gUartWriteComplete' = TRUE
    /\ UNCHANGED << flagVars, inputVars, statusVars, clientVars, rscVars, gUartSem, uartSent,
                    menuVars, taskVars, lastCall >>

IdleLocal == [op |-> "none", h |-> NULL, idx |-> 0, cb |-> NULL,
              uartReady |-> FALSE, ready0 |-> FALSE, i |-> 0, n |-> 0,
              ret |-> "none", dropped |-> {}]

\* calls of CUI_writeString made so far by all tasks
WritesStarted ==
    Cardinality({c \in Tasks \X (1..MaxWrites) : c[2] <= local[c[1]].n})

\* CUI_writeString, one step per preemption point.  A task submits frame <<t, n>>.
WS_call(t) ==
    /\ pc[t] = "idle"
    /\ WritesStarted < MaxWrites
    /\ local' = [local EXCEPT ![t].op = "writeString", ![t].n = @ + 1,
                              ![t].i = 0, ![t].ret = "none",
                              ![t].uartReady = gUartWriteComplete,
                              ![t].ready0 = gUartWriteComplete]
    /\ pc' = [pc EXCEPT ![t] = "ws_pend"]
    /\ UNCHANGED << flagVars, inputVars, statusVars, clientVars, rscVars, uartVars, menuVars, lastCall >>

WS_pend(t) ==
    /\ pc[t] = "ws_pend"
    /\ gUartSem = 1
    /\ gUartSem' = 0
    /\ pc' = [pc EXCEPT ![t] = IF local[t].uartReady THEN "ws_clear" ELSE "ws_poll"]
    /\ UNCHANGED << flagVars, inputVars, statusVars, clientVars, rscVars, gUartWriteComplete, uartInFlight,
                    uartSent, menuVars, local, lastCall >>

\* one iteration of the polling loop: Task_sleep, then read the flag
WS_poll(t) ==
    /\ pc[t] = "ws_poll"
    /\ local[t].i < PollLimit
    /\ IF gUartWriteComplete
       THEN /\ local' = [local EXCEPT ![t].i = @ + 1, ![t].uartReady = TRUE]
            /\ pc' = [pc EXCEPT ![t] = "ws_clear"]
       ELSE IF local[t].i + 1 < PollLimit
       THEN /\ local' = [local EXCEPT ![t].i = @ + 1]
            /\ pc' = pc
       ELSE \* budget spent: return without UART_write and without Semaphore_post
            /\ local' = [local EXCEPT ![t].i = @ + 1,
                                      ![t].ret = CUI_PREV_WRITE_UNFINISHED,
                                      ![t].dropped = @ \cup {local[t].n}]
            /\ pc' = [pc EXCEPT ![t] = "idle"]
    /\ UNCHANGED << flagVars, inputVars, statusVars, clientVars, rscVars, uartVars, menuVars, lastCall >>

WS_clear(t) ==
    /\ pc[t] = "ws_clear"
    /\ gUartWriteComplete' = FALSE
    /\ pc' = [pc EXCEPT ![t] = "ws_write"]
    /\ UNCHANGED << flagVars, inputVars, statusVars, clientVars, rscVars, gUartSem, uartInFlight, uartSent,
                    menuVars, local, lastCall >>

\* UART_write in callback mode returns 0; then Semaphore_post and return
WS_write(t) ==
    /\ pc[t] = "ws_write"
    /\ uartInFlight' = uartInFlight \cup {<<t, local[t].n>>}
    /\ uartSent' = uartSent \cup {<<t, local[t].n>>}
    /\ gUartSem' = 1
    /\ local' = [local EXCEPT ![t].ret = CUI_SUCCESS]
    /\ pc' = [pc EXCEPT ![t] = "idle"]
    /\ UNCHANGED << flagVars, inputVars, statusVars, clientVars, rscVars, gUartWriteComplete, menuVars, lastCall >>

(***************************************************************************)
(* Menus                                                                   *)
(***************************************************************************)
\* Pointers are numbers, NULL = 0: the menu objects ...
MenuA == 1
MenuB == 2
MenuC == 3
MenuA1 == 11
MenuA2 == 12
\* &cuiMultiMenu
MM == 100
\* the menus the clients register
TopMenus == {MenuA, MenuB, MenuC}
\* ... the descriptions ...
CUI_MENU_ACTION_HELP_DESC == 201
CUI_MENU_ACTION_BACK_DESC == 202
AppDesc == 203
\* ... and the functions
CUI_menuActionHelp == 301
CUI_menuActionBack == 302
AppAction == 303
AppIntercept == 304
AppUartUpdateFn == 305

\* a C array as a function from 0
Arr(seq) == [i \in 0..(Len(seq) - 1) |-> seq[i + 1]]

ZeroItem == [interceptable |-> FALSE, interceptActive |-> FALSE, pDesc |-> NULL, item |-> NULL]
\* a sub-menu item has no description
SubItem(m) == [interceptable |-> FALSE, interceptActive |-> FALSE, pDesc |-> NULL, item |-> m]
HelpItem == [interceptable |-> TRUE, interceptActive |-> FALSE,
             pDesc |-> CUI_MENU_ACTION_HELP_DESC, item |-> CUI_menuActionHelp]
BackItem == [interceptable |-> FALSE, interceptActive |-> FALSE,
             pDesc |-> CUI_MENU_ACTION_BACK_DESC, item |-> CUI_menuActionBack]
ActionItem == [interceptable |-> FALSE, interceptActive |-> FALSE,
               pDesc |-> AppDesc, item |-> AppAction]
InterceptItem == [interceptable |-> TRUE, interceptActive |-> FALSE,
                  pDesc |-> AppDesc, item |-> AppIntercept]

Menu(fn, upper, items) ==
    [uartUpdateFn |-> fn, numItems |-> Len(items), pUpper |-> upper, menuItems |-> Arr(items)]

\* the menus as their owners declare them, and cuiMultiMenu after CUI_init
InitMenus ==
    [m \in TopMenus \cup {MenuA1, MenuA2, MM} |->
        CASE m = MenuA  -> Menu(AppUartUpdateFn, NULL, << SubItem(MenuA1), ActionItem, HelpItem >>)
          [] m = MenuA1 -> Menu(NULL, MenuA, << SubItem(MenuA2), BackItem >>)
          [] m = MenuA2 -> Menu(NULL, MenuA1, << InterceptItem, BackItem >>)
          [] m = MenuB  -> Menu(AppUartUpdateFn, NULL, << InterceptItem, HelpItem >>)
          [] m = MenuC  -> Menu(AppUartUpdateFn, NULL, << HelpItem >>)
          [] m = MM     -> [uartUpdateFn |-> NULL, numItems |-> MAX_REGISTERED_MENUS + 1,
                            pUpper |-> NULL,
                            menuItems |-> [i \in 0..(MAX_REGISTERED_MENUS + 1) |-> ZeroItem]]]

MenuSlots == 0..(MAX_REGISTERED_MENUS - 1)
SlotFree(i) == gMenuResources[i].clientHash = NULL /\ gMenuResources[i].pMenu = NULL
SlotUsed(i) == gMenuResources[i].clientHash # NULL /\ gMenuResources[i].pMenu # NULL
MinOf(S) == CHOOSE x \in S : \A y \in S : x <= y

SetTrailing(ms, m, it) == [ms EXCEPT ![m].menuItems[ms[m].numItems - 1] = it]

\* the frame CUI_init, CUI_close and the last CUI_deRegisterMenu write to clear
\* the screen, and the frame CUI_dispMenu writes from dispBuff[b]
ClearFrame == << 0, 0 >>
DispFrame(b) == << 1, b >>

\* CUI_writeString run to its end by one task: what it returns and leaves behind.
\* "blocked" is a call that never returns from Semaphore_pend.
WriteStringOutcomes(f) ==
    IF gUartSem = 0
    THEN {[ret |-> "blocked", complete |-> gUartWriteComplete, sem |-> 0,
           inflight |-> uartInFlight, frame |-> f]}
    ELSE IF gUartWriteComplete
    THEN {[ret |-> CUI_SUCCESS, complete |-> FALSE, sem |-> 1,
           inflight |-> uartInFlight \cup {f}, frame |-> f]}
    ELSE \* the completion callback runs during the polls, or it does not
         {[ret |-> CUI_SUCCESS, complete |-> FALSE, sem |-> 1,
           inflight |-> (uartInFlight \ {g}) \cup {f}, frame |-> f] : g \in uartInFlight}
         \cup {[ret |-> CUI_PREV_WRITE_UNFINISHED, complete |-> FALSE, sem |-> 0,
                inflight |-> uartInFlight, frame |-> f]}

ApplyWrite(o) ==
    /\ gUartWriteComplete' = o.complete
    /\ gUartSem' = o.sem
    /\ uartInFlight' = o.inflight
    /\ uartSent' = IF o.ret = CUI_SUCCESS THEN uartSent \cup {o.frame} ELSE uartSent

\* CUI_dispMenu: format into dispBuff[currDispBuff], CUI_writeString, switch buffer
CUI_dispMenu(o) ==
    /\ ApplyWrite(o)
    /\ currDispBuff' = IF o.ret = "blocked" THEN currDispBuff ELSE 1 - currDispBuff

\* cuiMultiMenu.numItems after a registration that found numMenus > 0 menus
MultiNumItemsAfterRegister_incr(numMenus, cur) == cur + 1

MultiNumItemsAfterRegister(numMenus, cur) == IF numMenus = 1 THEN 3 ELSE cur + 1

\* the menu objects after CUI_registerMenu of m with numMenus menus registered
RegisterMenus(ms, main, numMenus, m) ==
    LET ms1 == IF numMenus = 1
               THEN LET a == [ms EXCEPT ![MM].uartUpdateFn = ms[main].uartUpdateFn,
                                        ![MM].menuItems[0] = SubItem(main),
                                        ![main].pUpper = MM]
                    IN  SetTrailing(a, main, BackItem)
               ELSE ms
        ms2 == [ms1 EXCEPT ![MM].menuItems[numMenus] = SubItem(m),
                           ![m].pUpper = MM]
        ms3 == SetTrailing(ms2, m, BackItem)
        ms4 == [ms3 EXCEPT ![MM].menuItems[numMenus + 1] = HelpItem,
                           ![MM].numItems = MultiNumItemsAfterRegister(numMenus, @)]
    IN  IF numMenus > 0 THEN ms4 ELSE ms

Remove(seq, m) == SelectSeq(seq, LAMBDA x : x # m)

\* no single-root state is remembered
NoSnap == [root |-> NULL, second |-> NULL, numItems |-> 0]

\* the checks CUI_registerMenu and CUI_deRegisterMenu make before they take
\* gMenuSem: the API checks, then the menu pointer, then its uartUpdateFn
MenuParamCheck_noFn(h, m) ==
    IF CUI_publicUartAPIChecks(h) # CUI_SUCCESS THEN CUI_publicUartAPIChecks(h)
    ELSE IF m = NULL THEN CUI_INVALID_PARAM
    ELSE CUI_SUCCESS

MenuParamCheck(h, m) ==
    IF CUI_publicUartAPIChecks(h) # CUI_SUCCESS THEN CUI_publicUartAPIChecks(h)
    ELSE IF m = NULL THEN CUI_INVALID_PARAM
    ELSE IF menus[m].uartUpdateFn = NULL THEN CUI_MISSING_UART_UPDATE_FN
    ELSE CUI_SUCCESS

CUI_registerMenu(h, m) ==
    LET chk == MenuParamCheck(h, m)
        free == {i \in MenuSlots : SlotFree(i)}
        numMenus == MAX_REGISTERED_MENUS - Cardinality(free)
        freeIndex == MinOf(free)
        ms == RegisterMenus(menus, gpMainMenu, numMenus, m)
        main == IF numMenus = 0 THEN m ELSE MM
    IN  /\ UNCHANGED << flagVars, inputVars, statusVars, clientVars, rscVars, taskVars, gPrevMenuItemEntry >>
        /\ IF chk # CUI_SUCCESS
           THEN /\ Returned("registerMenu", h, m, chk)
                /\ UNCHANGED << uartVars, gMenuResources, gMenuSem, gpCurrMenu, gpMainMenu,
                                gCurrMenuItemEntry, menus, currDispBuff, regOrder,
                                everMulti, snap >>
           ELSE /\ gMenuSem = 1
                /\ IF free = {}
                   THEN /\ Returned("registerMenu", h, m, CUI_MAX_MENUS_REACHED)
                        /\ UNCHANGED << uartVars, gMenuResources, gMenuSem, gpCurrMenu,
                                        gpMainMenu, gCurrMenuItemEntry, menus,
                                        currDispBuff, regOrder, everMulti, snap >>
                   ELSE /\ gMenuResources' =
                              [gMenuResources EXCEPT ![freeIndex] = [pMenu |-> m, clientHash |-> h]]
                        /\ menus' = ms
                        /\ gpMainMenu' = main
                        /\ gpCurrMenu' = IF numMenus >= 2 THEN gpCurrMenu ELSE main
                        /\ gCurrMenuItemEntry' = ms[main].numItems - 1
                        /\ regOrder' = Append(regOrder, m)
                        /\ everMulti' = (everMulti \/ numMenus >= 1)
                        /\ snap' = IF numMenus = 1
                                   THEN [root |-> gpMainMenu, second |-> m,
                                         numItems |-> menus[gpMainMenu].numItems]
                                   ELSE NoSnap
                        /\ \E o \in WriteStringOutcomes(DispFrame(currDispBuff)) :
                              /\ CUI_dispMenu(o)
                              /\ gMenuSem' = IF o.ret = "blocked" THEN 0 ELSE 1
                              /\ Returned("registerMenu", h, m,
                                          IF o.ret = "blocked" THEN "blocked" ELSE CUI_SUCCESS)

\* the items of cuiMultiMenu after the entries from matchingIndex on moved down
ShiftDown(items, matchingIndex) ==
    [i \in DOMAIN items |->
        IF i >= matchingIndex /\ i < MAX_REGISTERED_MENUS THEN items[i + 1] ELSE items[i]]

\* the trailing item CUI_deRegisterMenu gives the menu that becomes the single root
CollapseTrailingItem_keep(old) == old

CollapseTrailingItem(old) == HelpItem

CUI_deRegisterMenu(h, m) ==
    LET chk == MenuParamCheck(h, m)
        match == {i \in MenuSlots : gMenuResources[i].clientHash = h /\ gMenuResources[i].pMenu = m}
        matchingIndex == MinOf(match)
        numMenus == Cardinality({i \in MenuSlots : SlotUsed(i)})
        others == {i \in MenuSlots : SlotUsed(i) /\ i # matchingIndex}
        newMainMenuIndex == IF others = {} THEN 0 ELSE MinOf(others)
        newMain == gMenuResources[newMainMenuIndex].pMenu
        collapse == numMenus > 1 /\ menus[MM].numItems = 3
        shift == numMenus > 1 /\ menus[MM].numItems # 3
        cleared == [gMenuResources EXCEPT ![matchingIndex] = [pMenu |-> NULL, clientHash |-> NULL]]
    IN  /\ UNCHANGED << flagVars, inputVars, statusVars, clientVars, rscVars, taskVars, gPrevMenuItemEntry, everMulti >>
        /\ IF chk # CUI_SUCCESS
           THEN /\ Returned("deRegisterMenu", h, m, chk)
                /\ UNCHANGED << uartVars, gMenuResources, gMenuSem, gpCurrMenu, gpMainMenu,
                                gCurrMenuItemEntry, menus, currDispBuff, regOrder, snap >>
           ELSE /\ gMenuSem = 1
                /\ IF match = {}
                   THEN /\ Returned("deRegisterMenu", h, m, CUI_RESOURCE_NOT_ACQUIRED)
                        /\ UNCHANGED << uartVars, gMenuResources, gMenuSem, gpCurrMenu,
                                        gpMainMenu, gCurrMenuItemEntry, menus,
                                        currDispBuff, regOrder, snap >>
                   ELSE /\ regOrder' = Remove(regOrder, m)
                        /\ snap' = NoSnap
                        /\ gpMainMenu' = IF collapse THEN newMain
                                         ELSE IF shift THEN gpMainMenu ELSE NULL
                        /\ gpCurrMenu' = IF collapse THEN newMain
                                         ELSE IF shift THEN gpCurrMenu ELSE NULL
                        /\ menus' =
                              IF collapse
                              THEN LET a == [menus EXCEPT ![MM].numItems = 0]
                                   IN  SetTrailing(a, newMain,
                                          CollapseTrailingItem(
                                             a[newMain].menuItems[a[newMain].numItems - 1]))
                              ELSE IF shift
                              THEN [menus EXCEPT
                                      ![MM].menuItems = ShiftDown(@, matchingIndex),
                                      ![MM].numItems = @ - 1]
                              ELSE menus
                        /\ gCurrMenuItemEntry' =
                              IF collapse THEN menus[newMain].numItems - 1
                              ELSE IF shift
                              THEN IF gCurrMenuItemEntry = menus[MM].numItems - 1
                                   THEN gCurrMenuItemEntry - 1 ELSE gCurrMenuItemEntry
                              ELSE 0
                        /\ \E o \in WriteStringOutcomes(IF numMenus > 1
                                                           THEN DispFrame(currDispBuff)
                                                           ELSE ClearFrame) :
                              /\ IF numMenus > 1
                                 THEN CUI_dispMenu(o)
                                 ELSE ApplyWrite(o) /\ UNCHANGED currDispBuff
                              /\ IF o.ret = "blocked"
                                 THEN /\ gMenuSem' = 0
                                      /\ UNCHANGED gMenuResources
                                      /\ Returned("deRegisterMenu", h, m, "blocked")
                                 ELSE /\ gMenuSem' = 1
                                      /\ gMenuResources' = cleared
                                      /\ Returned("deRegisterMenu", h, m, CUI_SUCCESS)

\* CUI_findMenu(_pMenu, _pDesiredMenu, _pPrevItemIndex) on a menu object: whether
\* the desired menu is found, and *_pPrevItemIndex afterwards
RECURSIVE CUI_findMenu(_, _, _, _), FindInItems(_, _, _, _, _)
CUI_findMenu(ms, pMenu, pDesired, prev) ==
    IF pMenu = pDesired THEN [ok |-> TRUE, prev |-> prev]
    ELSE FindInItems(ms, pMenu, pDesired, 0, prev)

\* ... its loop over the items, from item i on
FindInItems(ms, pMenu, pDesired, i, prev) ==
    IF i >= ms[pMenu].numItems THEN [ok |-> FALSE, prev |-> prev]
    ELSE IF ms[pMenu].menuItems[i].pDesc = NULL
    THEN LET r == CUI_findMenu(ms, ms[pMenu].menuItems[i].item, pDesired, i)
         IN  IF r.ok THEN r ELSE FindInItems(ms, pMenu, pDesired, i + 1, r.prev)
    ELSE FindInItems(ms, pMenu, pDesired, i + 1, i)

\* the loop of CUI_menuNav over the registry from slot i on: the value it ends
\* with and prevItemIndex.  CUI_findMenu reads numItems through the pMenu of
\* the slot, also when the slot is empty: the read of what lies at NULL names
\* no menu, or the task stops in a fault
RECURSIVE NavSearch(_, _, _)
NavSearch(h, m, i) ==
    IF i >= MAX_REGISTERED_MENUS
    THEN {[ret |-> CUI_INVALID_PARAM, prev |-> 0]}
    ELSE LET p == gMenuResources[i].pMenu
         IN  IF p \notin DOMAIN menus
             THEN {[ret |-> "fault", prev |-> 0]} \cup NavSearch(h, m, i + 1)
             ELSE LET r == CUI_findMenu(menus, p, m, i)
                  IN  IF r.ok
                      THEN IF gMenuResources[i].clientHash # h
                           THEN {[ret |-> CUI_INVALID_CLIENT_HANDLE, prev |-> 0]}
                           ELSE {[ret |-> CUI_SUCCESS, prev |-> r.prev]}
                      ELSE NavSearch(h, m, i + 1)

\* CUI_menuNav(_clientHandle, _pMenu, _itemIndex)
CUI_menuNav(h, m, idx) ==
    LET chk == CUI_publicUartAPIChecks(h)
    IN  /\ UNCHANGED << flagVars, inputVars, statusVars, clientVars, rscVars, taskVars,
                        gMenuResources, gMenuSem, gpMainMenu, menus, regOrder, everMulti,
                        snap >>
        /\ IF chk # CUI_SUCCESS \/ m = NULL
           THEN /\ Returned("menuNav", h, << m, idx >>,
                            IF chk # CUI_SUCCESS THEN chk ELSE CUI_INVALID_PARAM)
                /\ UNCHANGED << uartVars, gpCurrMenu, gCurrMenuItemEntry,
                                gPrevMenuItemEntry, currDispBuff >>
           ELSE IF idx > menus[m].numItems - 1
           THEN /\ Returned("menuNav", h, << m, idx >>, CUI_INVALID_PARAM)
                /\ UNCHANGED << uartVars, gpCurrMenu, gCurrMenuItemEntry,
                                gPrevMenuItemEntry, currDispBuff >>
           ELSE \E n \in NavSearch(h, m, 0) :
                   IF n.ret # CUI_SUCCESS
                   THEN /\ Returned("menuNav", h, << m, idx >>, n.ret)
                        /\ UNCHANGED << uartVars, gpCurrMenu, gCurrMenuItemEntry,
                                        gPrevMenuItemEntry, currDispBuff >>
                   ELSE /\ gPrevMenuItemEntry' = n.prev
                        /\ gCurrMenuItemEntry' = idx
                        /\ gpCurrMenu' = m
                        /\ \E o \in WriteStringOutcomes(DispFrame(currDispBuff)) :
                              /\ CUI_dispMenu(o)
                              /\ Returned("menuNav", h, << m, idx >>,
                                          IF o.ret = "blocked" THEN "blocked"
                                          ELSE CUI_SUCCESS)

\* the serial transport as one value
UartNow == [complete |-> gUartWriteComplete, sem |-> gUartSem,
            inflight |-> uartInFlight, sent |-> uartSent]

\* CUI_writeString of frame f run to its end from transport state u: the value
\* it returns and the transport state it leaves.  "blocked": it never returns
\* from Semaphore_pend.
WriteStringFrom(u, f) ==
    IF u.sem = 0
    THEN {[ret |-> "blocked", u |-> u]}
    ELSE IF u.complete
    THEN {[ret |-> CUI_SUCCESS,
           u |-> [complete |-> FALSE, sem |-> 1, inflight |-> u.inflight \cup {f},
                  sent |-> u.sent \cup {f}]]}
    ELSE \* the completion callback runs during the polls, or it does not
         {[ret |-> CUI_SUCCESS,
           u |-> [complete |-> FALSE, sem |-> 1, inflight |-> (u.inflight \ {g}) \cup {f},
                  sent |-> u.sent \cup {f}]] : g \in u.inflight}
         \cup {[ret |-> CUI_PREV_WRITE_UNFINISHED,
                u |-> [complete |-> FALSE, sem |-> 0, inflight |-> u.inflight,
                       sent |-> u.sent]]}

SetUart(u) ==
    /\ gUartWriteComplete' = u.complete
    /\ gUartSem' = u.sem
    /\ uartInFlight' = u.inflight
    /\ uartSent' = u.sent

\* a status-line frame built from an entry read past the end of the array
WildFrame == <<0, 2>>
\* the frame CUI_updateCursor writes
CursorFrame == <<0, 1>>

\* CUI_updateCursor from transport state u (its CUI_writeString result is dropped)
CUI_updateCursor(active, u) ==
    IF active THEN WriteStringFrom(u, CursorFrame) ELSE {[ret |-> CUI_SUCCESS, u |-> u]}

(***************************************************************************)
(* Input decoding and menu navigation                                      *)
(***************************************************************************)
\* the command bytes and the signals given to an intercept handler; cui.h
\* declares them: Enter, Backspace and Esc as the help text names the keys
\* (cui.c:1749), the others as bytes that no key sends
CUI_ITEM_PREVIEW == 0
CUI_ITEM_INTERCEPT_START == 254
CUI_ITEM_INTERCEPT_STOP == 255
CUI_ITEM_INTERCEPT_CANCEL == 249
CUI_INPUT_UP == 250
CUI_INPUT_DOWN == 251
CUI_INPUT_RIGHT == 252
CUI_INPUT_LEFT == 253
CUI_INPUT_BACK == 127
CUI_INPUT_EXECUTE == 13
CUI_INPUT_ESC == 27

\* the escape sequences as the bytes memcmp compares, terminator included
CUI_ESC_UP == << 27, 91, 65, 0 >>
CUI_ESC_DOWN == << 27, 91, 66, 0 >>
CUI_ESC_RIGHT == << 27, 91, 67, 0 >>
CUI_ESC_LEFT == << 27, 91, 68, 0 >>
CUI_ESC_ESC == << 27, 0, 0, 0, 0, 0 >>

\* byte i of the memory that starts at gUartTxBuffer; past is the byte that
\* follows the CUI_NUM_UART_CHARS bytes of the buffer
BufByte(buf, past, i) == IF i < CUI_NUM_UART_CHARS THEN buf[i] ELSE past

\* memcmp(gUartTxBuffer, pat, sizeof(pat)) == 0
MemEq(buf, past, pat) == \A i \in 1..Len(pat) : BufByte(buf, past, i - 1) = pat[i]

\* the escape decoding of CUI_processMenuUpdate
Decode_leftIsUp(buf, past) ==
    IF buf[0] # CUI_INPUT_ESC THEN [input |-> buf[0], bad |-> FALSE]
    ELSE IF MemEq(buf, past, CUI_ESC_UP) THEN [input |-> CUI_INPUT_LEFT, bad |-> FALSE]
    ELSE IF MemEq(buf, past, CUI_ESC_DOWN) THEN [input |-> CUI_INPUT_DOWN, bad |-> FALSE]
    ELSE IF MemEq(buf, past, CUI_ESC_RIGHT) THEN [input |-> CUI_INPUT_RIGHT, bad |-> FALSE]
    ELSE IF MemEq(buf, past, CUI_ESC_LEFT) THEN [input |-> CUI_INPUT_UP, bad |-> FALSE]
    ELSE [input |-> buf[0], bad |-> ~MemEq(buf, past, CUI_ESC_ESC)]

Decode_neverBad(buf, past) ==
    IF buf[0] # CUI_INPUT_ESC THEN [input |-> buf[0], bad |-> FALSE]
    ELSE IF MemEq(buf, past, CUI_ESC_UP) THEN [input |-> CUI_INPUT_UP, bad |-> FALSE]
    ELSE IF MemEq(buf, past, CUI_ESC_DOWN) THEN [input |-> CUI_INPUT_DOWN, bad |-> FALSE]
    ELSE IF MemEq(buf, past, CUI_ESC_RIGHT) THEN [input |-> CUI_INPUT_RIGHT, bad |-> FALSE]
    ELSE IF MemEq(buf, past, CUI_ESC_LEFT) THEN [input |-> CUI_INPUT_LEFT, bad |-> FALSE]
    ELSE [input |-> buf[0], bad |-> FALSE]

Decode(buf, past) ==
    IF buf[0] # CUI_INPUT_ESC THEN [input |-> buf[0], bad |-> FALSE]
    ELSE IF MemEq(buf, past, CUI_ESC_UP) THEN [input |-> CUI_INPUT_UP, bad |-> FALSE]
    ELSE IF MemEq(buf, past, CUI_ESC_DOWN) THEN [input |-> CUI_INPUT_DOWN, bad |-> FALSE]
    ELSE IF MemEq(buf, past, CUI_ESC_RIGHT) THEN [input |-> CUI_INPUT_RIGHT, bad |-> FALSE]
    ELSE IF MemEq(buf, past, CUI_ESC_LEFT) THEN [input |-> CUI_INPUT_LEFT, bad |-> FALSE]
    ELSE [input |-> buf[0], bad |-> ~MemEq(buf, past, CUI_ESC_ESC)]

\* upper case to lower case
CaseFold(input) == IF input >= 65 /\ input <= 90 THEN input + 32 ELSE input

\* CUI_menuActionNavigate: the new item index
NavLeft(cur, numItems) == (cur - 1 + numItems) % numItems

NavRight_noWrap(cur, numItems) == IF cur + 1 < numItems THEN cur + 1 ELSE cur

NavRight(cur, numItems) == (cur + 1 + numItems) % numItems

\* the cursor (menu, index) designates an item that exists in memory
CursorValid(ms, cm, idx) == cm # NULL /\ idx \in DOMAIN ms[cm].menuItems

\* CUI_dispMenu(false) at (cm, idx): the preview call it makes, and whether it
\* dereferences a null pointer
DispPreview(ms, cm, idx) ==
    IF ~CursorValid(ms, cm, idx) THEN << >>
    ELSE LET it == ms[cm].menuItems[idx]
         IN  IF it.interceptable /\ it.item # NULL
             THEN << << "intercept", it.item, CUI_ITEM_PREVIEW >> >>
             ELSE << >>

DispFault(ms, cm, idx) ==
    \/ ~CursorValid(ms, cm, idx)
    \/ ms[cm].menuItems[idx].pDesc = NULL /\ ms[cm].menuItems[idx].item = NULL

\* the cursor after CUI_INPUT_BACK or CUI_menuActionBack
BackTarget_keepIndex(ms, cm, idx, prev) ==
    IF ms[cm].pUpper # NULL THEN [cm |-> ms[cm].pUpper, idx |-> idx]
    ELSE [cm |-> cm, idx |-> ms[cm].numItems - 1]

BackTarget(ms, cm, idx, prev) ==
    IF ms[cm].pUpper # NULL THEN [cm |-> ms[cm].pUpper, idx |-> prev]
    ELSE [cm |-> cm, idx |-> ms[cm].numItems - 1]

\* the cursor after CUI_INPUT_ESC outside of intercept
EscTarget_stay(ms, main, cm) == [cm |-> cm, idx |-> ms[cm].numItems - 1]

EscTarget(ms, main, cm) == [cm |-> main, idx |-> ms[main].numItems - 1]

\* the signal CUI_handleMenuIntercept gives the handler when intercept starts
\* (active = FALSE) or ends on the key input (active = TRUE)
InterceptSignal_key(active, input) ==
    IF ~active THEN input
    ELSE IF input = CUI_INPUT_EXECUTE THEN CUI_ITEM_INTERCEPT_STOP
    ELSE CUI_ITEM_INTERCEPT_CANCEL

InterceptSignal(active, input) ==
    IF ~active THEN CUI_ITEM_INTERCEPT_START
    ELSE IF input = CUI_INPUT_EXECUTE THEN CUI_ITEM_INTERCEPT_STOP
    ELSE CUI_ITEM_INTERCEPT_CANCEL

\* CUI_handleMenuIntercept and the navigation switch of CUI_processMenuUpdate
\* for the decoded and case-folded input, at a valid cursor.  report: the
\* application's handler sets a cursor position.  The result gives the menu
\* objects, the cursor, the handler calls in order, whether CUI_dispMenu and
\* CUI_updateCursor run, gCursorActive while CUI_dispMenu runs (cursor0) and
\* afterwards (cursor1), and whether a null pointer or a zero divisor is used.
MenuUpdate(ms, main, cm, idx, prev, cursor, input, report) ==
    LET it == ms[cm].menuItems[idx]
        fn == it.item
        call(sig) == IF fn # NULL THEN << << "intercept", fn, sig >> >> ELSE << >>
        stop == it.interceptable /\ it.interceptActive
                   /\ input \in {CUI_INPUT_EXECUTE, CUI_INPUT_ESC}
        start == it.interceptable /\ ~it.interceptActive /\ input = CUI_INPUT_EXECUTE
        forward == it.interceptable /\ it.interceptActive /\ ~stop
        active(b) == [ms EXCEPT ![cm].menuItems[idx].interceptActive = b]
        rep == report /\ fn = AppIntercept
        same == [ms |-> ms, cm |-> cm, idx |-> idx, prev |-> prev, handled |-> FALSE,
                 delivered |-> << >>, cursor0 |-> cursor, cursor1 |-> cursor,
                 disp |-> FALSE, cursorWrite |-> FALSE, fault |-> FALSE]
        moved(c, i, pv, calls) ==
                [same EXCEPT !.cm = c, !.idx = i, !.prev = pv, !.disp = TRUE,
                             !.delivered = calls \o DispPreview(ms, c, i),
                             !.fault = DispFault(ms, c, i)]
        numItems == ms[cm].numItems
    IN  IF stop
        THEN [same EXCEPT !.ms = active(FALSE), !.handled = TRUE,
                          !.delivered = call(InterceptSignal(TRUE, input))
                                        \o DispPreview(ms, cm, idx),
                          !.cursor0 = FALSE, !.cursor1 = FALSE, !.disp = TRUE,
                          !.fault = DispFault(ms, cm, idx)]
        ELSE IF start \/ forward
        THEN [same EXCEPT !.ms = IF start THEN active(TRUE) ELSE ms, !.handled = TRUE,
                          !.delivered = call(IF start THEN InterceptSignal(FALSE, input)
                                             ELSE input),
                          !.cursor1 = rep, !.disp = TRUE, !.cursorWrite = rep]
        ELSE IF input \in {CUI_INPUT_LEFT, CUI_INPUT_RIGHT}
        THEN IF numItems = 1 THEN same
             ELSE IF numItems = 0 THEN [same EXCEPT !.fault = TRUE]
             ELSE moved(cm, IF input = CUI_INPUT_LEFT THEN NavLeft(idx, numItems)
                            ELSE NavRight(idx, numItems), prev, << >>)
        ELSE IF input = CUI_INPUT_EXECUTE
        THEN IF it.pDesc = NULL
             THEN moved(fn, 0, idx, << >>)
             ELSE IF fn = NULL THEN moved(cm, idx, prev, << >>)
             ELSE IF fn = CUI_menuActionBack /\ ms[cm].pUpper # NULL
             THEN moved(ms[cm].pUpper, prev, prev, << << "action", fn, idx >> >>)
             ELSE moved(cm, idx, prev, << << "action", fn, idx >> >>)
        ELSE IF input = CUI_INPUT_BACK
        THEN moved(BackTarget(ms, cm, idx, prev).cm, BackTarget(ms, cm, idx, prev).idx,
                   prev, << >>)
        ELSE IF input = CUI_INPUT_ESC
        THEN IF main = NULL THEN [same EXCEPT !.fault = TRUE]
             ELSE moved(EscTarget(ms, main, cm).cm, EscTarget(ms, main, cm).idx, prev, << >>)
        ELSE same

\* the writes of one CUI_processMenuUpdate from transport state u: CUI_dispMenu,
\* then CUI_updateCursor; blocked: a CUI_writeString never returns
UpdateWrites(r, u) ==
    IF r.fault \/ ~r.disp
    THEN {[u |-> u, blocked |-> FALSE, flip |-> FALSE, cursor |-> r.cursor0]}
    ELSE UNION { IF w.ret = "blocked"
                 THEN {[u |-> w.u, blocked |-> TRUE, flip |-> FALSE, cursor |-> r.cursor0]}
                 ELSE {[u |-> c.u, blocked |-> c.ret = "blocked", flip |-> TRUE,
                        cursor |-> r.cursor1] : c \in CUI_updateCursor(r.cursorWrite, w.u)}
                 : w \in WriteStringFrom(u, DispFrame(currDispBuff)) }

\* what the last CUI_processMenuUpdate made of its window
NoInput == [kind |-> "none", input |-> 0, raw |-> 0]

\* CUI_processMenuUpdate, called by the application after its uartUpdateFn ran
CUI_processMenuUpdate ==
    /\ updatePending
    /\ updatePending' = FALSE
    /\ UNCHANGED << flagVars, clientVars, rscVars, statusVars, taskVars, lastCall,
                    gMenuResources, gMenuSem, gpMainMenu, regOrder, everMulti, snap >>
    /\ IF ~gModuleInitialized \/ ~gManageUart
       THEN /\ lastInput' = [NoInput EXCEPT !.kind = "failure"]
            /\ UNCHANGED << uartVars, gUartTxBuffer, gCursorActive, readArmed, lastRead, delivered,
                            gpCurrMenu, gCurrMenuItemEntry, gPrevMenuItemEntry, menus,
                            currDispBuff >>
       ELSE \E past \in {0, 1}, report \in BOOLEAN :
              LET d == Decode(gUartTxBuffer, past)
                  r == MenuUpdate(menus, gpMainMenu, gpCurrMenu, gCurrMenuItemEntry,
                                  gPrevMenuItemEntry, gCursorActive, CaseFold(d.input),
                                  report)
              IN  IF d.bad
                  THEN /\ lastInput' = [kind |-> "bad", input |-> d.input, raw |-> gUartTxBuffer[0]]
                       /\ delivered' = << >>
                       /\ gUartTxBuffer' = ZeroBuffer
                       /\ readArmed' = TRUE /\ lastRead' = -1
                       /\ UNCHANGED << uartVars, gCursorActive, gpCurrMenu,
                                       gCurrMenuItemEntry, gPrevMenuItemEntry, menus,
                                       currDispBuff >>
                  ELSE IF ~CursorValid(menus, gpCurrMenu, gCurrMenuItemEntry)
                  THEN \* pItemEntry is not an item: the task stops in a fault
                       /\ lastInput' = [NoInput EXCEPT !.kind = "fault", !.raw = gUartTxBuffer[0]]
                       /\ UNCHANGED << uartVars, gUartTxBuffer, gCursorActive, readArmed, lastRead,
                                       delivered, gpCurrMenu, gCurrMenuItemEntry,
                                       gPrevMenuItemEntry, menus, currDispBuff >>
                  ELSE /\ menus' = r.ms
                       /\ gpCurrMenu' = r.cm
                       /\ gCurrMenuItemEntry' = r.idx
                       /\ gPrevMenuItemEntry' = r.prev
                       /\ delivered' = r.delivered
                       /\ \E o \in UpdateWrites(r, UartNow) :
                             /\ SetUart(o.u)
                             /\ gCursorActive' = o.cursor
                             /\ currDispBuff' = IF o.flip THEN 1 - currDispBuff
                                                ELSE currDispBuff
                             /\ lastInput' =
                                   [kind |-> IF r.fault THEN "fault"
                                             ELSE IF o.blocked THEN "blocked"
                                             ELSE IF r.handled THEN "intercept" ELSE "nav",
                                    input |-> CaseFold(d.input),
                                    raw |-> gUartTxBuffer[0]]
                             /\ IF r.fault \/ o.blocked
                                THEN UNCHANGED << gUartTxBuffer, readArmed, lastRead >>
                                ELSE gUartTxBuffer' = ZeroBuffer /\ readArmed' = TRUE /\ lastRead' = -1

\* the first uartUpdateFn from menu m upwards (NULL: there is none)
RECURSIVE UartUpdateFnFrom(_, _)
UartUpdateFnFrom(ms, m) ==
    IF m = NULL THEN NULL
    ELSE IF ms[m].uartUpdateFn # NULL THEN ms[m].uartUpdateFn
    ELSE UartUpdateFnFrom(ms, ms[m].pUpper)

\* UartReadCallback with _size bytes of window w in the receive buffer
UartReadCallback(w, size) ==
    /\ readArmed
    /\ readArmed' = FALSE
    /\ lastRead' = size
    /\ UNCHANGED << flagVars, clientVars, rscVars, statusVars, taskVars, lastCall,
                    uartVars, menuVars, gCursorActive >>
    /\ IF size = 0
       THEN UNCHANGED << gUartTxBuffer, updatePending, lastInput, delivered >>
       ELSE /\ gUartTxBuffer' =
                  IF gUartTxBuffer[0] = 0
                  THEN [i \in DOMAIN gUartTxBuffer |-> IF i < size THEN w[i] ELSE gUartTxBuffer[i]]
                  ELSE gUartTxBuffer
            /\ updatePending' = (updatePending \/ UartUpdateFnFrom(menus, gpCurrMenu) # NULL)
            /\ lastInput' = NoInput
            /\ delivered' = << >>

(***************************************************************************)
(* Status lines                                                            *)
(***************************************************************************)
CUI_NO_ASYNC_LINES_RELEASED == "CUI_NO_ASYNC_LINES_RELEASED"
\* first terminal row of the status lines
CUI_INITIAL_STATUS_OFFSET == 5
\* the line id CUI_statusLineResourceRequest hands back with a failure
InvalidLineId == 255

ClientSlots == 0..(MAX_CLIENTS - 1)

\* offset of line freeIndex of the client in slot clientIndex
LineOffset_noSeparator(maxLines, clientIndex, freeIndex) ==
    LET RECURSIVE Sum(_)
        Sum(i) == IF i = 0 THEN 0 ELSE Sum(i - 1) + maxLines[i - 1]
    IN  Sum(clientIndex) + freeIndex

LineOffset(maxLines, clientIndex, freeIndex) ==
    LET RECURSIVE Sum(_)
        Sum(i) == IF i = 0 THEN 0 ELSE Sum(i - 1) + maxLines[i - 1] + 1
    IN  Sum(clientIndex) + freeIndex

\* the lines of the caller's slot a CUI_acquireStatusLine may take
FreeLines(clientIndex) ==
    {i \in 0..(gMaxStatusLines[clientIndex] - 1) :
        gStatusLineResources[clientIndex][i].status = CUI_RELEASED}

\* what the read of gStatusLineResources[clientIndex][_lineId] yields: the entry,
\* or, past the end of the client's array, whatever the heap holds there
LineRead(h, clientIndex, lineId) ==
    IF lineId \in DOMAIN gStatusLineResources[clientIndex]
    THEN {gStatusLineResources[clientIndex][lineId]}
    ELSE {ZeroLine, [clientHash |-> h, lineOffset |-> 0, status |-> CUI_RELEASED],
          [clientHash |-> h, lineOffset |-> 0, status |-> CUI_ACQUIRED]}

\* the check of CUI_statusLinePrintf on the entry it read
StatusOwnerCheck_statusFirst(h, line) ==
    IF line.status # CUI_ACQUIRED THEN CUI_RESOURCE_NOT_ACQUIRED
    ELSE IF h # line.clientHash THEN CUI_INVALID_CLIENT_HANDLE
    ELSE CUI_SUCCESS

StatusOwnerCheck(h, line) ==
    IF h # line.clientHash THEN CUI_INVALID_CLIENT_HANDLE
    ELSE IF line.status # CUI_ACQUIRED THEN CUI_RESOURCE_NOT_ACQUIRED
    ELSE CUI_SUCCESS

\* CUI_statusLinePrintf after its checks, from transport state u: the value it
\* returns, the transport state and gStatusSem it leaves
PrintOutcomes(frame, tooLong, u) ==
    IF tooLong
    THEN {[ret |-> CUI_FAILURE, u |-> u, sem |-> 1]}
    ELSE UNION { IF w.ret = "blocked"
                 THEN {[ret |-> "blocked", u |-> w.u, sem |-> 0]}
                 ELSE IF w.ret # CUI_SUCCESS
                 THEN {[ret |-> w.ret, u |-> w.u, sem |-> 1]}
                 ELSE {[ret |-> IF c.ret = "blocked" THEN "blocked" ELSE CUI_SUCCESS,
                        u |-> c.u,
                        sem |-> IF c.ret = "blocked" THEN 0 ELSE 1]
                          : c \in CUI_updateCursor(gCursorActive, w.u)}
                 : w \in WriteStringFrom(u, frame) }

CUI_statusLinePrintf(h, lineId, tooLong) ==
    LET chk == CUI_publicUartAPIChecks(h)
        clientIndex == CUI_getClientIndex(h)
    IN  /\ UNCHANGED << flagVars, inputVars, clientVars, rscVars, menuVars, taskVars,
                        gStatusLineResources, freed >>
        /\ IF chk # CUI_SUCCESS
           THEN /\ Returned("statusLinePrintf", h, lineId, chk)
                /\ UNCHANGED << uartVars, gStatusSem >>
           ELSE \E line \in LineRead(h, clientIndex, lineId) :
                  IF StatusOwnerCheck(h, line) # CUI_SUCCESS
                  THEN /\ Returned("statusLinePrintf", h, lineId, StatusOwnerCheck(h, line))
                       /\ UNCHANGED << uartVars, gStatusSem >>
                  ELSE /\ gStatusSem = 1
                       /\ \E o \in PrintOutcomes(
                                     IF lineId \in DOMAIN gStatusLineResources[clientIndex]
                                     THEN << h, lineId,
                                             CUI_INITIAL_STATUS_OFFSET + line.lineOffset >>
                                     ELSE WildFrame,
                                     tooLong, UartNow) :
                             /\ SetUart(o.u)
                             /\ gStatusSem' = o.sem
                             /\ Returned("statusLinePrintf", h, lineId, o.ret)

\* CUI_statusLineResourceRequest with CUI_acquireStatusLine and the print of "--"
CUI_statusLineResourceRequest(h, label) ==
    LET chk == CUI_publicUartAPIChecks(h)
        clientIndex == CUI_getClientIndex(h)
        free == FreeLines(clientIndex)
        freeIndex == MinOf(free)
        offset == LineOffset(gMaxStatusLines, clientIndex, freeIndex)
    IN  /\ UNCHANGED << flagVars, inputVars, clientVars, rscVars, menuVars, taskVars >>
        /\ IF chk # CUI_SUCCESS
           THEN /\ Returned("statusLineRequest", h, InvalidLineId, chk)
                /\ UNCHANGED << uartVars, statusVars >>
           ELSE IF label = NULL
           THEN /\ Returned("statusLineRequest", h, InvalidLineId, CUI_INVALID_PARAM)
                /\ UNCHANGED << uartVars, statusVars >>
           ELSE /\ gStatusSem = 1
                /\ IF free = {}
                   THEN /\ Returned("statusLineRequest", h, InvalidLineId,
                                    CUI_NO_ASYNC_LINES_RELEASED)
                        /\ UNCHANGED << uartVars, statusVars >>
                   ELSE /\ UNCHANGED freed
                        /\ gStatusLineResources' =
                              [gStatusLineResources EXCEPT ![clientIndex][freeIndex] =
                                  [clientHash |-> h, lineOffset |-> offset,
                                   status |-> CUI_ACQUIRED]]
                        /\ \E o \in PrintOutcomes(
                                      << h, freeIndex, CUI_INITIAL_STATUS_OFFSET + offset >>,
                                      FALSE, UartNow) :
                              /\ SetUart(o.u)
                              /\ gStatusSem' = o.sem
                              /\ Returned("statusLineRequest", h, freeIndex,
                                          IF o.ret = "blocked" THEN "blocked"
                                          ELSE CUI_SUCCESS)

(***************************************************************************)
(* CUI_close and CUI_init                                                  *)
(***************************************************************************)
\* a pointer that names no menu
WILD == 999

\* a pointer is four bytes wide, a CUI_menuResource_t eight: pMenu, then clientHash
PointerBytes == 4

\* a status line of a freed array after the allocator reused the block
StaleLine == [clientHash |-> WILD, lineOffset |-> 0, status |-> "stale"]

\* what free() leaves where the array a was: the bytes as they were, or others
AfterFree(a) == {a, [j \in DOMAIN a |-> StaleLine]}

\* CUI_close; the call waits for gStatusSem, and it frees every array of status
\* lines that gStatusLineResources still points to, freed before or not
CUI_close ==
    LET slots == 0..(MAX_CLIENTS - 1)
        again == {i \in slots : gStatusLineResources[i] # << >> /\ i \in freed}
    IN  /\ UNCHANGED << gMaxStatusLines, gClientsSem, quotaPassed, gButtonResources,
                        gLedResources, gMenuResources, gMenuSem, gpCurrMenu, gpMainMenu,
                        gCurrMenuItemEntry, gPrevMenuItemEntry, menus, currDispBuff,
                        regOrder, everMulti, snap, taskVars, gUartTxBuffer,
                        gCursorActive, updatePending, lastInput, delivered >>
        /\ IF ~gModuleInitialized
           THEN /\ gModuleInitialized' = FALSE
                /\ gManageUart' = FALSE
                /\ gManageLeds' = FALSE
                /\ gManageBtns' = FALSE
                /\ UNCHANGED << gClientHandles, ledState, uartVars, readArmed, lastRead, statusVars >>
                /\ Returned("close", NULL, NULL, CUI_SUCCESS)
           ELSE IF ~gManageUart
           THEN /\ gModuleInitialized' = FALSE
                /\ gManageUart' = FALSE
                /\ gManageLeds' = FALSE
                /\ gManageBtns' = FALSE
                /\ gClientHandles' = [i \in slots |-> NULL]
                /\ ledState' = IF gManageLeds THEN [i \in LedIdx |-> "off"] ELSE ledState
                /\ UNCHANGED << uartVars, readArmed, lastRead, statusVars >>
                /\ Returned("close", NULL, NULL, CUI_SUCCESS)
           ELSE /\ gStatusSem = 1
                /\ ledState' = IF gManageLeds THEN [i \in LedIdx |-> "off"] ELSE ledState
                /\ \E w \in WriteStringFrom(UartNow, ClearFrame) :
                      IF w.ret = "blocked"
                      THEN /\ gStatusSem' = 0
                           /\ UNCHANGED << flagVars, gClientHandles, uartVars, readArmed, lastRead,
                                           gStatusLineResources, freed >>
                           /\ Returned("close", NULL, NULL, "blocked")
                      ELSE /\ gModuleInitialized' = FALSE
                           /\ gManageUart' = FALSE
                           /\ gManageLeds' = FALSE
                           /\ gManageBtns' = FALSE
                           /\ gClientHandles' = [i \in slots |-> NULL]
                           /\ \E g \in [slots -> UNION {AfterFree(gStatusLineResources[i]) : i \in slots}] :
                                 /\ \A i \in slots : g[i] \in AfterFree(gStatusLineResources[i])
                                 /\ gStatusLineResources' = g
                           /\ freed' = freed \cup {i \in slots : gStatusLineResources[i] # << >>}
                           \* UART_close ends the write and the read that are outstanding
                           /\ SetUart([w.u EXCEPT !.inflight = {}])
                           /\ readArmed' = FALSE
                           /\ UNCHANGED lastRead
                           /\ gStatusSem' = 1
                           /\ \E r \in IF again = {} THEN {CUI_SUCCESS} ELSE {CUI_SUCCESS, "fault"} :
                                 Returned("close", NULL, NULL, r)

\* memset(gMenuResources, 0, n) with n the number of entries, not of bytes: a
\* pointer zeroed in part names no menu, a handle keeps its value unless its
\* low byte is zeroed (the handles of ClientNames are below 256)
MemsetMenuResources(r, n) ==
    [i \in DOMAIN r |->
        [pMenu |-> IF 2 * PointerBytes * i + PointerBytes <= n THEN NULL
                   ELSE IF 2 * PointerBytes * i < n /\ r[i].pMenu # NULL THEN WILD
                   ELSE r[i].pMenu,
         clientHash |-> IF 2 * PointerBytes * i + PointerBytes < n THEN NULL
                        ELSE r[i].clientHash]]

\* the parameters CUI_init is called with
InitParams ==
    { [manageBtns |-> b, manageLeds |-> b, manageUart |-> u] : b, u \in BOOLEAN }

\* CUI_init(_pParams); malloc and UART_open are taken to succeed
CUI_init(params) ==
    /\ UNCHANGED << gMaxStatusLines, quotaPassed, gpCurrMenu, gpMainMenu,
                    gCurrMenuItemEntry, gPrevMenuItemEntry, currDispBuff, regOrder,
                    everMulti, snap, taskVars, gUartTxBuffer, gCursorActive,
                    updatePending, lastInput, delivered, gStatusLineResources, freed >>
    /\ IF gModuleInitialized
          \/ ~(params.manageBtns \/ params.manageLeds \/ params.manageUart)
       THEN /\ UNCHANGED << flagVars, gClientHandles, gClientsSem, rscVars, uartVars,
                            gMenuResources, gMenuSem, menus, readArmed, lastRead, gStatusSem >>
            /\ Returned("init", NULL, params, CUI_FAILURE)
       ELSE /\ gClientsSem' = 1
            /\ gClientHandles' = [i \in 0..(MAX_CLIENTS - 1) |-> NULL]
            /\ gManageBtns' = params.manageBtns
            /\ gButtonResources' =
                  IF params.manageBtns
                  THEN [i \in BtnIdx |-> [clientHash |-> NULL, appCb |-> NULL]]
                  ELSE gButtonResources
            /\ gManageLeds' = params.manageLeds
            /\ gLedResources' =
                  IF params.manageLeds THEN [i \in LedIdx |-> [clientHash |-> NULL]]
                  ELSE gLedResources
            /\ ledState' = IF params.manageLeds THEN [i \in LedIdx |-> "off"] ELSE ledState
            /\ gManageUart' = params.manageUart
            /\ IF params.manageUart
               THEN /\ gMenuSem' = 1
                    /\ readArmed' = TRUE /\ lastRead' = -1
                    \* gUartWriteComplete = true, then CUI_writeString on the new gUartSem
                    /\ \E w \in WriteStringFrom([UartNow EXCEPT !.complete = TRUE, !.sem = 1],
                                                ClearFrame) : SetUart(w.u)
                    /\ gMenuResources' = MemsetMenuResources(gMenuResources, MAX_REGISTERED_MENUS)
                    /\ menus' = [menus EXCEPT ![MM].menuItems =
                                    [i \in DOMAIN menus[MM].menuItems |->
                                        IF i < MAX_REGISTERED_MENUS + 1 THEN ZeroItem
                                        ELSE menus[MM].menuItems[i]]]
                    /\ gStatusSem' = 1
               ELSE UNCHANGED << uartVars, gMenuResources, gMenuSem, menus, readArmed, lastRead,
                                 gStatusSem >>
            /\ gModuleInitialized' = TRUE
            /\ Returned("init", NULL, params, CUI_SUCCESS)

(***************************************************************************)
(* The status lock, one step per preemption point                          *)
(***************************************************************************)
\* gStatusSem after CUI_statusLinePrintf returned ret from inside its section:
\* every return path posts it
StatusSemAfterReturn_leak(ret) == IF ret = CUI_SUCCESS THEN 1 ELSE 0

StatusSemAfterReturn(ret) == 1

\* the locals of a task whose call op returned ret
Done(op, ret) == [IdleLocal EXCEPT !.op = op, !.ret = ret]

\* the value the call of task t returns: CUI_statusLineResourceRequest drops
\* the value of the CUI_statusLinePrintf it ends with
PrintReturn(t, ret) == IF local[t].op = "statusLineRequest" THEN CUI_SUCCESS ELSE ret

\* CUI_statusLinePrintf is called
SP_call(t, h, lineId) ==
    /\ pc[t] = "idle"
    /\ local' = [local EXCEPT ![t] = [IdleLocal EXCEPT !.op = "statusLinePrintf",
                                                        !.h = h, !.idx = lineId]]
    /\ pc' = [pc EXCEPT ![t] = "sp_check"]
    /\ UNCHANGED << flagVars, inputVars, statusVars, clientVars, rscVars, uartVars,
                    menuVars, lastCall >>

\* its checks, before the lock is taken
SP_check(t) ==
    LET h == local[t].h
        chk == CUI_publicUartAPIChecks(h)
        clientIndex == CUI_getClientIndex(h)
    IN  /\ pc[t] = "sp_check"
        /\ IF chk # CUI_SUCCESS
           THEN /\ local' = [local EXCEPT ![t] = Done(local[t].op, PrintReturn(t, chk))]
                /\ pc' = [pc EXCEPT ![t] = "idle"]
           ELSE \E line \in LineRead(h, clientIndex, local[t].idx) :
                   IF StatusOwnerCheck(h, line) # CUI_SUCCESS
                   THEN /\ local' = [local EXCEPT ![t] =
                                        Done(local[t].op,
                                             PrintReturn(t, StatusOwnerCheck(h, line)))]
                        /\ pc' = [pc EXCEPT ![t] = "idle"]
                   ELSE /\ local' = [local EXCEPT ![t].i = clientIndex]
                        /\ pc' = [pc EXCEPT ![t] = "sp_pend"]
        /\ UNCHANGED << flagVars, inputVars, statusVars, clientVars, rscVars, uartVars,
                        menuVars, lastCall >>

SP_pend(t) ==
    /\ pc[t] = "sp_pend"
    /\ gStatusSem = 1
    /\ gStatusSem' = 0
    /\ pc' = [pc EXCEPT ![t] = "sp_write"]
    /\ UNCHANGED << flagVars, inputVars, gStatusLineResources, freed, clientVars, rscVars,
                    uartVars, menuVars, local, lastCall >>

\* the line is formatted and handed to CUI_writeString
SP_write(t) ==
    LET h == local[t].h
        lines == gStatusLineResources[local[t].i]
        frame == IF local[t].idx \in DOMAIN lines
                 THEN << h, local[t].idx,
                         CUI_INITIAL_STATUS_OFFSET + lines[local[t].idx].lineOffset >>
                 ELSE WildFrame
    IN  /\ pc[t] = "sp_write"
        /\ UNCHANGED << flagVars, inputVars, gStatusLineResources, freed, clientVars,
                        rscVars, menuVars, lastCall >>
        /\ \E tooLong \in BOOLEAN :
              IF tooLong
              THEN /\ gStatusSem' = StatusSemAfterReturn(CUI_FAILURE)
                   /\ local' = [local EXCEPT ![t] = Done(local[t].op, PrintReturn(t, CUI_FAILURE))]
                   /\ pc' = [pc EXCEPT ![t] = "idle"]
                   /\ UNCHANGED uartVars
              ELSE \E w \in WriteStringFrom(UartNow, frame) :
                      /\ SetUart(w.u)
                      /\ IF w.ret = "blocked"
                         THEN /\ pc' = [pc EXCEPT ![t] = "sp_stuck"]
                              /\ UNCHANGED << gStatusSem, local >>
                         ELSE IF w.ret # CUI_SUCCESS
                         THEN /\ gStatusSem' = StatusSemAfterReturn(w.ret)
                              /\ local' = [local EXCEPT ![t] = Done(local[t].op, PrintReturn(t, w.ret))]
                              /\ pc' = [pc EXCEPT ![t] = "idle"]
                         ELSE /\ pc' = [pc EXCEPT ![t] = "sp_cursor"]
                              /\ UNCHANGED << gStatusSem, local >>

\* CUI_updateCursor, then Semaphore_post and return
SP_cursor(t) ==
    /\ pc[t] = "sp_cursor"
    /\ UNCHANGED << flagVars, inputVars, gStatusLineResources, freed, clientVars, rscVars,
                    menuVars, lastCall >>
    /\ \E c \in CUI_updateCursor(gCursorActive, UartNow) :
          /\ SetUart(c.u)
          /\ IF c.ret = "blocked"
             THEN /\ pc' = [pc EXCEPT ![t] = "sp_stuck"]
                  /\ UNCHANGED << gStatusSem, local >>
             ELSE /\ gStatusSem' = StatusSemAfterReturn(CUI_SUCCESS)
                  /\ local' = [local EXCEPT ![t] = Done(local[t].op, CUI_SUCCESS)]
                  /\ pc' = [pc EXCEPT ![t] = "idle"]

\* CUI_statusLineResourceRequest is called with a label
SA_call(t, h) ==
    LET chk == CUI_publicUartAPIChecks(h)
    IN  /\ pc[t] = "idle"
        /\ local' = [local EXCEPT ![t] =
                         IF chk # CUI_SUCCESS THEN Done("statusLineRequest", chk)
                         ELSE [IdleLocal EXCEPT !.op = "statusLineRequest", !.h = h,
                                                !.idx = InvalidLineId]]
        /\ pc' = [pc EXCEPT ![t] = IF chk # CUI_SUCCESS THEN "idle" ELSE "sa_pend"]
        /\ UNCHANGED << flagVars, inputVars, statusVars, clientVars, rscVars, uartVars,
                        menuVars, lastCall >>

SA_pend(t) ==
    /\ pc[t] = "sa_pend"
    /\ gStatusSem = 1
    /\ gStatusSem' = 0
    /\ pc' = [pc EXCEPT ![t] = "sa_search"]
    /\ UNCHANGED << flagVars, inputVars, gStatusLineResources, freed, clientVars, rscVars,
                    uartVars, menuVars, local, lastCall >>

\* CUI_acquireStatusLine looks for a released line of the client and posts the
\* lock.  After a CUI_close the handle resolves to -1 and the search reads
\* outside the tables: it finds no line, or the task stops in a fault
SA_search(t) ==
    LET clientIndex == CUI_getClientIndex(local[t].h)
    IN  /\ pc[t] = "sa_search"
        /\ UNCHANGED << flagVars, inputVars, gStatusLineResources, freed, clientVars,
                        rscVars, uartVars, menuVars, lastCall >>
        /\ IF clientIndex = -1
           THEN \/ /\ gStatusSem' = 1
                   /\ local' = [local EXCEPT ![t] = Done(local[t].op, CUI_NO_ASYNC_LINES_RELEASED)]
                   /\ pc' = [pc EXCEPT ![t] = "idle"]
                \/ /\ pc' = [pc EXCEPT ![t] = "sa_stuck"]
                   /\ UNCHANGED << gStatusSem, local >>
           ELSE /\ gStatusSem' = 1
                /\ IF FreeLines(clientIndex) = {}
                   THEN /\ local' = [local EXCEPT ![t] = Done(local[t].op, CUI_NO_ASYNC_LINES_RELEASED)]
                        /\ pc' = [pc EXCEPT ![t] = "idle"]
                   ELSE /\ local' = [local EXCEPT ![t].i = clientIndex,
                                                  ![t].idx = MinOf(FreeLines(clientIndex))]
                        /\ pc' = [pc EXCEPT ![t] = "sa_store"]

\* ... stores the entry, and CUI_statusLinePrintf is called for the line
SA_store(t) ==
    LET clientIndex == local[t].i
        freeIndex == local[t].idx
    IN  /\ pc[t] = "sa_store"
        /\ gStatusLineResources' =
              [gStatusLineResources EXCEPT ![clientIndex][freeIndex] =
                  [clientHash |-> local[t].h,
                   lineOffset |-> LineOffset(gMaxStatusLines, clientIndex, freeIndex),
                   status |-> CUI_ACQUIRED]]
        /\ pc' = [pc EXCEPT ![t] = "sp_check"]
        /\ UNCHANGED << flagVars, inputVars, freed, gStatusSem, clientVars, rscVars,
                        uartVars, menuVars, local, lastCall >>

\* CUI_close is called: a module that manages the UART waits for the status lock
CL_call(t) ==
    /\ pc[t] = "idle"
    /\ UNCHANGED << inputVars, statusVars, gMaxStatusLines, gClientsSem, quotaPassed,
                    gButtonResources, gLedResources, uartVars, menuVars, lastCall >>
    /\ IF gModuleInitialized /\ gManageUart
       THEN /\ local' = [local EXCEPT ![t] = [IdleLocal EXCEPT !.op = "close"]]
            /\ pc' = [pc EXCEPT ![t] = "cl_pend"]
            /\ ledState' = IF gManageLeds THEN [i \in LedIdx |-> "off"] ELSE ledState
            /\ UNCHANGED << flagVars, gClientHandles >>
       ELSE /\ local' = [local EXCEPT ![t] = Done("close", CUI_SUCCESS)]
            /\ pc' = pc
            /\ gClientHandles' = IF gModuleInitialized
                                 THEN [i \in 0..(MAX_CLIENTS - 1) |-> NULL]
                                 ELSE gClientHandles
            /\ ledState' = IF gModuleInitialized /\ gManageLeds
                           THEN [i \in LedIdx |-> "off"] ELSE ledState
            /\ gModuleInitialized' = FALSE
            /\ gManageUart' = FALSE
            /\ gManageLeds' = FALSE
            /\ gManageBtns' = FALSE

CL_pend(t) ==
    /\ pc[t] = "cl_pend"
    /\ gStatusSem = 1
    /\ gStatusSem' = 0
    /\ pc' = [pc EXCEPT ![t] = "cl_write"]
    /\ UNCHANGED << flagVars, inputVars, gStatusLineResources, freed, clientVars, rscVars,
                    uartVars, menuVars, local, lastCall >>

\* the write that clears the screen; its return value is dropped
CL_write(t) ==
    /\ pc[t] = "cl_write"
    /\ \E w \in WriteStringFrom(UartNow, ClearFrame) :
          /\ SetUart(w.u)
          /\ pc' = [pc EXCEPT ![t] = IF w.ret = "blocked" THEN "cl_stuck" ELSE "cl_free"]
    /\ UNCHANGED << flagVars, inputVars, statusVars, clientVars, rscVars, menuVars,
                    local, lastCall >>

\* the arrays of status lines are freed, the UART is closed, the lock is posted
CL_free(t) ==
    LET slots == 0..(MAX_CLIENTS - 1)
    IN  /\ pc[t] = "cl_free"
        /\ \E g \in [slots -> UNION {AfterFree(gStatusLineResources[i]) : i \in slots}] :
              /\ \A i \in slots : g[i] \in AfterFree(gStatusLineResources[i])
              /\ gStatusLineResources' = g
        /\ freed' = freed \cup {i \in slots : gStatusLineResources[i] # << >>}
        /\ SetUart([UartNow EXCEPT !.inflight = {}])
        /\ readArmed' = FALSE
        /\ gStatusSem' = 1
        /\ gClientHandles' = [i \in slots |-> NULL]
        /\ gModuleInitialized' = FALSE
        /\ gManageUart' = FALSE
        /\ gManageLeds' = FALSE
        /\ gManageBtns' = FALSE
        /\ local' = [local EXCEPT ![t] = Done(local[t].op, CUI_SUCCESS)]
        /\ pc' = [pc EXCEPT ![t] = "idle"]
        /\ UNCHANGED << gMaxStatusLines, gClientsSem, quotaPassed, rscVars, menuVars,
                        gUartTxBuffer, gCursorActive, lastRead, updatePending, lastInput,
                        delivered, lastCall >>

(***************************************************************************)
(* Initial state: after a successful CUI_init that manages everything      *)
(***************************************************************************)
\* ... with the clients of handles open, the client of slot i with quota quotas[i]
InitOpen(handles, quotas) ==
    /\ gModuleInitialized = TRUE
    /\ gManageBtns = TRUE
    /\ gManageLeds = TRUE
    /\ gManageUart = TRUE
    /\ gClientHandles = handles
    /\ gMaxStatusLines = quotas
    /\ gClientsSem = 1
    /\ quotaPassed = [h \in Handles \ {NULL} |->
                         IF \E i \in 0..(MAX_CLIENTS - 1) : handles[i] = h
                         THEN quotas[CHOOSE i \in 0..(MAX_CLIENTS - 1) : handles[i] = h]
                         ELSE -1]
    /\ gButtonResources = [i \in BtnIdx |-> [clientHash |-> NULL, appCb |-> NULL]]
    /\ gLedResources = [i \in LedIdx |-> [clientHash |-> NULL]]
    /\ ledState = [i \in LedIdx |-> "off"]
    /\ gUartWriteComplete = FALSE
    /\ gUartSem = 1
    /\ uartInFlight = {ClearFrame}
    /\ uartSent = {ClearFrame}
    /\ gMenuResources = [i \in 0..(MAX_REGISTERED_MENUS - 1) |-> [pMenu |-> NULL, clientHash |-> NULL]]
    /\ gMenuSem = 1
    /\ gpCurrMenu = NULL
    /\ gpMainMenu = NULL
    /\ gCurrMenuItemEntry = 0
    /\ gPrevMenuItemEntry = 0
    /\ menus = InitMenus
    /\ currDispBuff = 0
    /\ regOrder = <<>>
    /\ everMulti = FALSE
    /\ snap = NoSnap
    /\ pc = [t \in Tasks |-> "idle"]
    /\ local = [t \in Tasks |-> IdleLocal]
    /\ lastCall = [op |-> "none", client |-> NULL, arg |-> NULL, ret |-> "none", seq |-> 0]
    /\ gUartTxBuffer = ZeroBuffer
    /\ gCursorActive = FALSE
    /\ readArmed = TRUE
    /\ lastRead = -1
    /\ updatePending = FALSE
    /\ lastInput = [kind |-> "none", input |-> 0, raw |-> 0]
    /\ delivered = << >>
    /\ gStatusLineResources =
          [i \in 0..(MAX_CLIENTS - 1) |-> [j \in 0..(quotas[i] - 1) |-> ZeroLine]]
    /\ freed = {}
    /\ gStatusSem = 1

InitWith(handles) == InitOpen(handles, [i \in 0..(MAX_CLIENTS - 1) |-> 0])

Init == InitWith([i \in 0..(MAX_CLIENTS - 1) |-> NULL])

\* the state after CUI_init and the CUI_clientOpen of the clients "A" and "B"
ClientA == NameHash(<<65>>)
ClientB == NameHash(<<66>>)
InitOpened ==
    InitWith([i \in 0..(MAX_CLIENTS - 1) |->
                 IF i = 0 THEN ClientA ELSE IF i = 1 THEN ClientB ELSE NULL])

(***************************************************************************)
(* Sequential use of the button and LED tables                             *)
(***************************************************************************)
OpenAny == \E n \in ClientNames : CUI_clientOpen(n, 0)

\* the callers present the handle of some name; NULL is refused by
\* CUI_validateHandle like any handle that is not open
Callers == Handles \ {NULL}

NextRes ==
    \/ \E h \in Callers, i \in BtnIdx, cb \in AppCbs : CUI_btnResourceRequest(h, i, cb)
    \/ \E h \in Callers, i \in BtnIdx, cb \in AppCbs : CUI_btnSetCb(h, i, cb)
    \/ \E h \in Callers, i \in BtnIdx : CUI_btnResourceRelease(h, i)
    \/ \E h \in Callers, i \in LedIdx : CUI_ledResourceRequest(h, i)
    \/ \E h \in Callers, i \in LedIdx : CUI_ledResourceRelease(h, i)
    \/ \E op \in LedOps, h \in Callers, i \in LedIdx : CUI_ledControl(op, h, i)

\* clients "A" and "B" are open; the handle of "C" is presented without being open
SpecRes == InitOpened /\ [][NextRes]_vars

\* ... and the clients read the buttons as well
NextUse ==
    \/ NextRes
    \/ \E h \in Callers, i \in BtnIdx : CUI_btnGetValue(h, i)

SpecUse == InitOpened /\ [][NextUse]_vars

(***************************************************************************)
(* Two tasks requesting a button or an LED, one step per memory access     *)
(***************************************************************************)
\* CUI_btnResourceRequest / CUI_ledResourceRequest up to the call of the acquire
RQ_call(t, op, h, i, cb) ==
    LET chk == IF op = "btnRequest" THEN CUI_publicBtnsAPIChecks(h)
               ELSE CUI_publicLedsAPIChecks(h)
    IN  /\ pc[t] = "idle"
        /\ local[t].n = 0
        /\ local' = [local EXCEPT ![t].op = op, ![t].h = h, ![t].idx = i, ![t].cb = cb,
                                  ![t].n = 1,
                                  ![t].ret = IF chk # CUI_SUCCESS THEN chk ELSE "none"]
        /\ pc' = [pc EXCEPT ![t] = IF chk # CUI_SUCCESS THEN "idle" ELSE "rq_check"]
        /\ UNCHANGED << flagVars, inputVars, statusVars, clientVars, rscVars, uartVars, menuVars, lastCall >>

\* CUI_acquireBtn / CUI_acquireLed: the test of the stored owner
RQ_check(t) ==
    LET owner == IF local[t].op = "btnRequest"
                 THEN gButtonResources[local[t].idx].clientHash
                 ELSE gLedResources[local[t].idx].clientHash
    IN  /\ pc[t] = "rq_check"
        /\ IF owner # NULL
           THEN /\ local' = [local EXCEPT ![t].ret = CUI_FAILURE]
                /\ pc' = [pc EXCEPT ![t] = "idle"]
           ELSE /\ local' = local
                /\ pc' = [pc EXCEPT ![t] = "rq_set"]
        /\ UNCHANGED << flagVars, inputVars, statusVars, clientVars, rscVars, uartVars, menuVars, lastCall >>

\* the store of the new owner
RQ_set(t) ==
    /\ pc[t] = "rq_set"
    /\ IF local[t].op = "btnRequest"
       THEN /\ gButtonResources' =
                  [gButtonResources EXCEPT ![local[t].idx].clientHash = local[t].h]
            /\ pc' = [pc EXCEPT ![t] = "rq_setcb"]
            /\ UNCHANGED << gLedResources, local >>
       ELSE /\ gLedResources' =
                  [gLedResources EXCEPT ![local[t].idx].clientHash = local[t].h]
            /\ local' = [local EXCEPT ![t].ret = CUI_SUCCESS]
            /\ pc' = [pc EXCEPT ![t] = "idle"]
            /\ UNCHANGED gButtonResources
    /\ UNCHANGED << flagVars, inputVars, statusVars, clientVars, ledState, uartVars, menuVars, lastCall >>

\* the store of the callback, and the return of CUI_SUCCESS
RQ_setcb(t) ==
    /\ pc[t] = "rq_setcb"
    /\ gButtonResources' = [gButtonResources EXCEPT ![local[t].idx].appCb = local[t].cb]
    /\ local' = [local EXCEPT ![t].ret = CUI_SUCCESS]
    /\ pc' = [pc EXCEPT ![t] = "idle"]
    /\ UNCHANGED << flagVars, inputVars, statusVars, clientVars, gLedResources, ledState, uartVars,
                    menuVars, lastCall >>

NextRace ==
    \/ OpenAny
    \/ \E t \in Tasks, op \in {"btnRequest", "ledRequest"}, h \in Callers,
          cb \in AppCbs \ {NULL} : RQ_call(t, op, h, 0, cb)
    \/ \E t \in Tasks : RQ_check(t)
    \/ \E t \in Tasks : RQ_set(t)
    \/ \E t \in Tasks : RQ_setcb(t)

SpecRace == Init /\ [][NextRace]_vars

(***************************************************************************)
(* Concurrent CUI_writeString callers and the write-completion callback    *)
(***************************************************************************)
NextUart ==
    \/ UartWriteCallback
    \/ \E t \in Tasks : WS_call(t)
    \/ \E t \in Tasks : WS_pend(t)
    \/ \E t \in Tasks : WS_poll(t)
    \/ \E t \in Tasks : WS_clear(t)
    \/ \E t \in Tasks : WS_write(t)

SpecUart == Init /\ [][NextUart]_vars

(***************************************************************************)
(* Clients with status-line quotas, requesting and printing status lines   *)
(***************************************************************************)
\* a call returned in this step
CallReturned == lastCall'.seq # lastCall.seq

LineIds == (0..(MaxQuota - 1)) \cup {InvalidLineId}

\* the clients "A" and "B" are open, each with a quota of its choice
InitQuotas ==
    \E qa \in 0..MaxQuota, qb \in 0..MaxQuota :
        InitOpen([i \in 0..(MAX_CLIENTS - 1) |->
                     IF i = 0 THEN ClientA ELSE IF i = 1 THEN ClientB ELSE NULL],
                 [i \in 0..(MAX_CLIENTS - 1) |->
                     IF i = 0 THEN qa ELSE IF i = 1 THEN qb ELSE 0])

NextStatus ==
    \/ UartWriteCallback
    \/ \E h \in Callers, label \in {NULL, 1} : CUI_statusLineResourceRequest(h, label)
    \/ \E h \in Callers, j \in LineIds, tooLong \in BOOLEAN :
           CUI_statusLinePrintf(h, j, tooLong)

SpecStatus == InitQuotas /\ [][NextStatus]_vars

(***************************************************************************)
(* Tasks printing status lines while a task closes the module              *)
(***************************************************************************)
\* the clients "A" and "B" are open with one status line each
InitPrint ==
    InitOpen([i \in 0..(MAX_CLIENTS - 1) |->
                 IF i = 0 THEN ClientA ELSE IF i = 1 THEN ClientB ELSE NULL],
             [i \in 0..(MAX_CLIENTS - 1) |-> IF i <= 1 THEN 1 ELSE 0])

NextPrint ==
    \/ UartWriteCallback
    \/ \E t \in Tasks, h \in {ClientA, ClientB} : SP_call(t, h, 0)
    \/ \E t \in Tasks : SP_check(t)
    \/ \E t \in Tasks : SP_pend(t)
    \/ \E t \in Tasks : SP_write(t)
    \/ \E t \in Tasks : SP_cursor(t)
    \/ \E t \in Tasks : SA_call(t, ClientA)
    \/ \E t \in Tasks : SA_pend(t)
    \/ \E t \in Tasks : SA_search(t)
    \/ \E t \in Tasks : SA_store(t)
    \/ \E t \in Tasks : CL_call(t)
    \/ \E t \in Tasks : CL_pend(t)
    \/ \E t \in Tasks : CL_write(t)
    \/ \E t \in Tasks : CL_free(t)

SpecPrint == InitPrint /\ [][NextPrint]_vars

(***************************************************************************)
(* Clients opening with a name and a quota, and requesting status lines    *)
(***************************************************************************)
\* the names the clients open with: two letters and the empty name that
\* CUI_clientParamsInit sets
OpenNames == {<< 65 >>, << 66 >>, << >>}

NextOpen ==
    \/ UartWriteCallback
    \/ \E n \in OpenNames, q \in 0..MaxQuota : CUI_clientOpen(n, q)
    \/ \E h \in Callers : CUI_statusLineResourceRequest(h, 1)

SpecOpen == Init /\ [][NextOpen]_vars

(***************************************************************************)
(* Clients calling into a module that is closed and initialized again      *)
(***************************************************************************)
\* The state after CUI_init, CUI_clientOpen("A", 1) and the calls of "A"
\* CUI_btnResourceRequest, CUI_ledResourceRequest, CUI_ledOn, CUI_registerMenu
\* of MenuA and CUI_statusLineResourceRequest, every write completed: "A" owns
\* the button, the LED, the root menu and its status line
InitHeld ==
    /\ gModuleInitialized = TRUE
    /\ gManageBtns = TRUE
    /\ gManageLeds = TRUE
    /\ gManageUart = TRUE
    /\ gClientHandles = [i \in 0..(MAX_CLIENTS - 1) |-> IF i = 0 THEN ClientA ELSE NULL]
    /\ gMaxStatusLines = [i \in 0..(MAX_CLIENTS - 1) |-> IF i = 0 THEN 1 ELSE 0]
    /\ gClientsSem = 1
    /\ quotaPassed = [h \in Handles \ {NULL} |-> IF h = ClientA THEN 1 ELSE -1]
    /\ gButtonResources = [i \in BtnIdx |-> [clientHash |-> ClientA, appCb |-> 1]]
    /\ gLedResources = [i \in LedIdx |-> [clientHash |-> ClientA]]
    /\ ledState = [i \in LedIdx |-> "on"]
    /\ gUartWriteComplete = TRUE
    /\ gUartSem = 1
    /\ uartInFlight = {}
    /\ uartSent = {ClearFrame, DispFrame(0), << ClientA, 0, CUI_INITIAL_STATUS_OFFSET >>}
    /\ gMenuResources = [i \in 0..(MAX_REGISTERED_MENUS - 1) |->
                            IF i = 0 THEN [pMenu |-> MenuA, clientHash |-> ClientA]
                            ELSE [pMenu |-> NULL, clientHash |-> NULL]]
    /\ gMenuSem = 1
    /\ gpCurrMenu = MenuA
    /\ gpMainMenu = MenuA
    /\ gCurrMenuItemEntry = InitMenus[MenuA].numItems - 1
    /\ gPrevMenuItemEntry = 0
    /\ menus = InitMenus
    /\ currDispBuff = 1
    /\ regOrder = << MenuA >>
    /\ everMulti = FALSE
    /\ snap = NoSnap
    /\ pc = [t \in Tasks |-> "idle"]
    /\ local = [t \in Tasks |-> IdleLocal]
    /\ lastCall = [op |-> "statusLineRequest", client |-> ClientA, arg |-> 0,
                   ret |-> CUI_SUCCESS, seq |-> 1]
    /\ gUartTxBuffer = ZeroBuffer
    /\ gCursorActive = FALSE
    /\ readArmed = TRUE
    /\ lastRead = -1
    /\ updatePending = FALSE
    /\ lastInput = [kind |-> "none", input |-> 0, raw |-> 0]
    /\ delivered = << >>
    /\ gStatusLineResources =
          [i \in 0..(MAX_CLIENTS - 1) |->
              IF i = 0 THEN [j \in {0} |-> [clientHash |-> ClientA, lineOffset |-> 0,
                                            status |-> CUI_ACQUIRED]]
              ELSE << >>]
    /\ freed = {}
    /\ gStatusSem = 1

\* every operation that takes a client handle
ClientCall(h) ==
    \/ \E i \in BtnIdx : CUI_btnResourceRequest(h, i, 1)
    \/ \E i \in BtnIdx : CUI_btnSetCb(h, i, NULL)
    \/ \E i \in BtnIdx : CUI_btnGetValue(h, i)
    \/ \E i \in BtnIdx : CUI_btnResourceRelease(h, i)
    \/ \E i \in LedIdx : CUI_ledResourceRequest(h, i)
    \/ \E i \in LedIdx : CUI_ledResourceRelease(h, i)
    \/ \E op \in LedOps, i \in LedIdx : CUI_ledControl(op, h, i)
    \/ \E m \in {MenuA, MenuC} : CUI_registerMenu(h, m)
    \/ \E m \in {MenuA, MenuC} : CUI_deRegisterMenu(h, m)
    \/ \E m \in {MenuA, MenuA1} : CUI_menuNav(h, m, 0)
    \/ CUI_statusLineResourceRequest(h, 1)
    \/ CUI_statusLinePrintf(h, 0, FALSE)

\* Tasks call with no handle or with the handle of "B", which is not open; the
\* module is closed and initialized again, and "A" calls again, after the
\* close, with the handle it obtained before
NextGuard ==
    \/ UartWriteCallback
    \/ CUI_close
    \/ \E p \in InitParams : CUI_init(p)
    \/ \E h \in {NULL, ClientB} : ClientCall(h)
    \/ ClientA \notin OpenHandles /\ ClientCall(ClientA)

SpecGuard == InitHeld /\ [][NextGuard]_vars

(***************************************************************************)
(* Clients opening and registering after the module was closed             *)
(***************************************************************************)
\* the names and quotas the clients open with
ReopenNames == {<< 65 >>, << 66 >>}
ReopenQuotas == {0, 1}

NextReopen ==
    \/ UartWriteCallback
    \/ CUI_close
    \/ \E p \in InitParams : CUI_init(p)
    \/ \E n \in ReopenNames, q \in ReopenQuotas : CUI_clientOpen(n, q)
    \/ CUI_registerMenu(ClientB, MenuC)

SpecReopen == InitHeld /\ [][NextReopen]_vars

(***************************************************************************)
(* Claims on the button and LED tables                                     *)
(***************************************************************************)

\* C1: every button and LED has no owner or one open client as owner, and a
\* request by an open client for a resource that another client owns returns
\* CUI_FAILURE and leaves the owner (and the button callback) as they were.
\* (Every step of SpecRes is one call, which lastCall' describes.)
C1_ExclusiveOwner ==
    /\ [](/\ \A i \in BtnIdx : gButtonResources[i].clientHash \in {NULL} \cup OpenHandles
          /\ \A i \in LedIdx : gLedResources[i].clientHash \in {NULL} \cup OpenHandles)
    /\ [][/\ ( /\ lastCall'.op = "btnRequest"
               /\ lastCall'.client \in OpenHandles
               /\ gButtonResources[lastCall'.arg].clientHash \notin {NULL, lastCall'.client} )
             => /\ lastCall'.ret = CUI_FAILURE
                /\ gButtonResources' = gButtonResources
          /\ ( /\ lastCall'.op = "ledRequest"
               /\ lastCall'.client \in OpenHandles
               /\ gLedResources[lastCall'.arg].clientHash \notin {NULL, lastCall'.client} )
             => /\ lastCall'.ret = CUI_FAILURE
                /\ gLedResources' = gLedResources]_vars

\* a request of an open client was refused while another client owns the button
C1_Witness ==
    /\ lastCall.op = "btnRequest"
    /\ lastCall.ret = CUI_FAILURE
    /\ lastCall.client \in OpenHandles
    /\ gButtonResources[lastCall.arg].clientHash \notin {NULL, lastCall.client}
    /\ gButtonResources[lastCall.arg].appCb # NULL

\* C2: of two tasks that request the same free button or LED at most one gets
\* CUI_SUCCESS, and the stored owner is the handle of the task that got it.
C2_AcquireSerialized ==
    \A t \in Tasks :
        ( /\ pc[t] = "idle"
          /\ local[t].op \in {"btnRequest", "ledRequest"}
          /\ local[t].ret = CUI_SUCCESS )
        => /\ \A u \in Tasks \ {t} :
                 ~( /\ local[u].op = local[t].op
                    /\ local[u].idx = local[t].idx
                    /\ local[u].ret = CUI_SUCCESS )
           /\ IF local[t].op = "btnRequest"
              THEN gButtonResources[local[t].idx].clientHash = local[t].h
              ELSE gLedResources[local[t].idx].clientHash = local[t].h

\* C3: a release, a CUI_btnSetCb or an LED state call by an open client that is
\* not the stored owner returns CUI_INVALID_CLIENT_HANDLE and changes neither
\* the owners, nor the callbacks, nor the LED states.
\* (Every step of SpecRes is one call, which lastCall' describes.)
C3_NotOwnerRejected ==
    [][/\ ( /\ lastCall'.op \in {"btnRelease", "btnSetCb"}
            /\ lastCall'.client \in OpenHandles
            /\ lastCall'.client # gButtonResources[lastCall'.arg].clientHash )
          => /\ lastCall'.ret = CUI_INVALID_CLIENT_HANDLE
             /\ UNCHANGED rscVars
       /\ ( /\ lastCall'.op \in LedOps \cup {"ledRelease"}
            /\ lastCall'.client \in OpenHandles
            /\ lastCall'.client # gLedResources[lastCall'.arg].clientHash )
          => /\ lastCall'.ret = CUI_INVALID_CLIENT_HANDLE
             /\ UNCHANGED rscVars]_vars

\* an LED state call of an open client was refused on an LED that another
\* client owns and has switched on
C3_Witness ==
    /\ lastCall.op \in LedOps \cup {"ledRelease"}
    /\ lastCall.ret = CUI_INVALID_CLIENT_HANDLE
    /\ lastCall.client \in OpenHandles
    /\ gLedResources[lastCall.arg].clientHash \notin {NULL, lastCall.client}
    /\ ledState[lastCall.arg] = "on"

(***************************************************************************)
(* Claims on the serial transport                                          *)
(***************************************************************************)
\* C4: at most one UART write is in flight: UART_write is never issued while
\* an earlier UART_write still waits for its completion callback.
C4_OneWriteInFlight == Cardinality(uartInFlight) <= 1

Registered == {gMenuResources[i].pMenu : i \in MenuSlots} \ {NULL}

\* the client that declares a menu is the one that registers it
MenuOwner(m) == IF m = MenuA THEN ClientA ELSE ClientB

NextMenu ==
    \/ UartWriteCallback
    \/ \E m \in TopMenus \ Registered : CUI_registerMenu(MenuOwner(m), m)
    \/ \E h \in {ClientA, ClientB}, m \in TopMenus : CUI_deRegisterMenu(h, m)

SpecMenu == InitOpened /\ [][NextMenu]_vars

\* ... and the clients deregister menus of their own and of the other client,
\* registered or not, a sub-menu, and no menu at all
DeregMenus == {MenuA, MenuC, MenuA1, NULL}

NextDereg ==
    \/ UartWriteCallback
    \/ \E m \in {MenuA, MenuC} \ Registered : CUI_registerMenu(MenuOwner(m), m)
    \/ \E h \in {ClientA, ClientB}, m \in DeregMenus : CUI_deRegisterMenu(h, m)

SpecDereg == InitOpened /\ [][NextDereg]_vars

(***************************************************************************)
(* Keystrokes on the registered menus                                      *)
(***************************************************************************)
\* the receive buffer after a read completion of the bytes seq
Window(seq) == [i \in 0..(CUI_NUM_UART_CHARS - 1) |-> IF i < Len(seq) THEN seq[i + 1] ELSE 0]

\* the read completions: the four arrows, Esc, Enter, Backspace, the command
\* bytes for left and right, the letter A, a truncated escape sequence, an
\* arrow with the start of the next one behind it, and an empty completion
Keys == { << 27, 91, 65 >>, << 27, 91, 66 >>, << 27, 91, 67 >>, << 27, 91, 68 >>,
          << 27 >>, << 13 >>, << 127 >>, << 253 >>, << 252 >>, << 65 >>,
          << 27, 91 >>, << 27, 91, 68, 27, 91 >>, << >> }

\* the menus the clients register before keys arrive: one with sub-menus and
\* one with a single item
InputMenus == {MenuA, MenuC}

\* the clients set their menus up before the first key arrives
NoKeyYet == readArmed /\ ~updatePending /\ lastInput.kind = "none"

NextInput ==
    \/ UartWriteCallback
    \/ \E k \in Keys : UartReadCallback(Window(k), Len(k))
    \/ CUI_processMenuUpdate
    \/ \E m \in InputMenus \ Registered : NoKeyYet /\ CUI_registerMenu(MenuOwner(m), m)
    \/ \E m \in Registered : NoKeyYet /\ CUI_deRegisterMenu(MenuOwner(m), m)

SpecInput == InitOpened /\ [][NextInput]_vars

\* the application calls CUI_processMenuUpdate once its uartUpdateFn has run
SpecInputFair == SpecInput /\ WF_vars(CUI_processMenuUpdate)

(***************************************************************************)
(* Clients navigating to a menu with CUI_menuNav                           *)
(***************************************************************************)
\* the menus a client names: registered or not, roots and sub-menus
NavMenus == {MenuA, MenuA1, MenuA2, MenuC}

\* the item indexes a client passes: the first item, and one that only the
\* longest menu has
NavIndexes == {0, 2}

NextNav ==
    \/ UartWriteCallback
    \/ \E m \in InputMenus \ Registered : CUI_registerMenu(MenuOwner(m), m)
    \/ \E m \in Registered : CUI_deRegisterMenu(MenuOwner(m), m)
    \/ \E h \in {ClientA, ClientB}, m \in NavMenus, idx \in NavIndexes :
          CUI_menuNav(h, m, idx)

SpecNav == InitOpened /\ [][NextNav]_vars

(***************************************************************************)
(* Backspace after CUI_menuNav                                             *)
(***************************************************************************)
\* the only key is Backspace; the owner of a menu navigates to it or below it
NextBack ==
    \/ UartWriteCallback
    \/ \E m \in InputMenus \ Registered : CUI_registerMenu(MenuOwner(m), m)
    \/ \E m \in Registered : CUI_deRegisterMenu(MenuOwner(m), m)
    \/ \E m \in NavMenus : CUI_menuNav(MenuOwner(m), m, 0)
    \/ UartReadCallback(Window(<< CUI_INPUT_BACK >>), 1)
    \/ CUI_processMenuUpdate

SpecBack == InitOpened /\ [][NextBack]_vars

(***************************************************************************)
(* Keys, CUI_menuNav and registration in any order                         *)
(***************************************************************************)
\* the keys: Enter, which enters a sub-menu or starts an intercept, and Backspace
CursorKeys == { << CUI_INPUT_EXECUTE >>, << CUI_INPUT_BACK >> }

\* the menus the owners navigate to: a nested sub-menu whose first item is
\* interceptable, and a registered menu with one item
CursorNavMenus == {MenuA2, MenuC}

\* the owner of the registered menu that m is, or that m lies below
NavOwner(m) == IF m \in {MenuA, MenuA1, MenuA2} THEN ClientA ELSE ClientB

\* the clients register in the order A, C, B ...
RegisterNext(m) ==
    Registered = (IF m = MenuA THEN {} ELSE IF m = MenuC THEN {MenuA} ELSE {MenuA, MenuC})

\* ... and "B" deregisters one of its two menus while three are registered
NextCursor ==
    \/ UartWriteCallback
    \/ \E m \in TopMenus : RegisterNext(m) /\ CUI_registerMenu(MenuOwner(m), m)
    \/ \E m \in {MenuB, MenuC} : Registered = TopMenus /\ CUI_deRegisterMenu(MenuOwner(m), m)
    \/ \E m \in CursorNavMenus : CUI_menuNav(NavOwner(m), m, 0)
    \/ \E k \in CursorKeys : UartReadCallback(Window(k), Len(k))
    \/ CUI_processMenuUpdate

SpecCursor == InitOpened /\ [][NextCursor]_vars

(***************************************************************************)
(* Keys arriving while the module is closed and initialized again          *)
(***************************************************************************)
\* the windows the reads complete with: a key, a NUL byte followed by a key,
\* an arrow, and a completion without bytes
RestartKeys == { << 65 >>, << 0, 66 >>, << 27, 91, 68 >>, << >> }

NextRestart ==
    \/ UartWriteCallback
    \/ CUI_close
    \/ \E p \in InitParams : CUI_init(p)
    \/ \E k \in RestartKeys : UartReadCallback(Window(k), Len(k))
    \/ CUI_processMenuUpdate
    \/ \E m \in InputMenus \ Registered : NoKeyYet /\ CUI_registerMenu(MenuOwner(m), m)

SpecRestart == InitOpened /\ [][NextRestart]_vars


(***************************************************************************)
(* Claims on menu registration                                             *)
(***************************************************************************)
NumRegistered == Cardinality({i \in MenuSlots : gMenuResources[i].pMenu # NULL})
\* no CUI_registerMenu / CUI_deRegisterMenu call is under way
MenuQuiescent == gMenuSem = 1
Trailing(m) == menus[m].menuItems[menus[m].numItems - 1]

\* C6: between calls, the root is cuiMultiMenu exactly if two or more menus are
\* registered, and then it has one item per registered menu plus one; with one
\* registered menu the root is that menu, with none there is no root.
C6_MultiMenuIffTwo ==
    MenuQuiescent =>
        /\ (gpMainMenu = MM) <=> (NumRegistered >= 2)
        /\ NumRegistered >= 2 => menus[MM].numItems = NumRegistered + 1
        /\ NumRegistered = 1 => Registered = {gpMainMenu}
        /\ NumRegistered = 0 => gpMainMenu = NULL

\* three menus are registered under the Multi-Menu after one was deregistered
C6_Witness ==
    /\ MenuQuiescent
    /\ NumRegistered = 3
    /\ gpMainMenu = MM
    /\ menus[MM].numItems = 4
    /\ lastCall.op = "registerMenu"
    /\ \E i \in MenuSlots : regOrder[3] = gMenuResources[i].pMenu /\ i < 2

\* C7: the first registration makes its menu the root and the current menu; the
\* second makes cuiMultiMenu the root and the current menu, with the 3 items
\* (first menu, second menu, Help), both menus below it with a Back action as
\* trailing item, and the cursor on the Help item.
C7_RegisterOneThenTwo ==
    [][/\ ( regOrder = <<>> /\ Len(regOrder') = 1 /\ gMenuSem' = 1 )
          => /\ gpMainMenu' = regOrder'[1]
             /\ gpCurrMenu' = regOrder'[1]
       /\ ( Len(regOrder) = 1 /\ Len(regOrder') = 2 /\ gMenuSem' = 1 )
          => /\ gpMainMenu' = MM
             /\ gpCurrMenu' = MM
             /\ menus'[MM].numItems = 3
             /\ menus'[MM].menuItems[0] = SubItem(regOrder'[1])
             /\ menus'[MM].menuItems[1] = SubItem(regOrder'[2])
             /\ menus'[MM].menuItems[2] = HelpItem
             /\ \A k \in 1..2 :
                   /\ menus'[regOrder'[k]].pUpper = MM
                   /\ menus'[regOrder'[k]].menuItems[menus'[regOrder'[k]].numItems - 1] = BackItem
             /\ gCurrMenuItemEntry' = 2]_vars

\* a second menu was registered after the Multi-Menu had held three menus
C7_Witness ==
    /\ MenuQuiescent
    /\ lastCall.op = "registerMenu" /\ lastCall.ret = CUI_SUCCESS
    /\ Len(regOrder) = 2
    /\ snap.root # NULL
    /\ menus[MM].menuItems[3] # ZeroItem
    /\ gCurrMenuItemEntry = 2

\* C8: deregistering the second menu right after its registration restores the
\* single root: the same root menu, with the same number of items, and with
\* the Help action as its trailing item again.
C8_DeregisterSecondRestores ==
    [][( /\ snap.root # NULL
         /\ regOrder = << snap.root, snap.second >>
         /\ regOrder' = << snap.root >>
         /\ gMenuSem' = 1 )
       => /\ gpMainMenu' = snap.root
          /\ gpCurrMenu' = snap.root
          /\ menus'[snap.root].numItems = snap.numItems
          /\ menus'[snap.root].menuItems[snap.numItems - 1] = HelpItem
          /\ gCurrMenuItemEntry' = snap.numItems - 1]_vars

\* the second menu has just been deregistered and the first is the root again
C8_Witness ==
    /\ MenuQuiescent
    /\ lastCall.op = "deRegisterMenu" /\ lastCall.ret = CUI_SUCCESS
    /\ Len(regOrder) = 1
    /\ gpMainMenu = regOrder[1]
    /\ menus[MM].numItems = 0
    /\ menus[MM].menuItems[0] = SubItem(gpMainMenu)
    /\ menus[MM].menuItems[1] = SubItem(lastCall.arg)
    /\ Trailing(gpMainMenu) = HelpItem

\* C9: between calls with two or more menus registered, the sub-menu items of
\* cuiMultiMenu are the registered menus, each once, in the order of their
\* registration, followed by the Help item.
C9_MultiMenuItemsAreRegistered ==
    ( MenuQuiescent /\ Len(regOrder) >= 2 ) =>
        /\ menus[MM].numItems = Len(regOrder) + 1
        /\ \A k \in 1..Len(regOrder) : menus[MM].menuItems[k - 1] = SubItem(regOrder[k])
        /\ menus[MM].menuItems[Len(regOrder)] = HelpItem

\* C10: once a second menu has been registered, between calls the trailing item
\* of the root is the Help action, the trailing item of every registered menu
\* below cuiMultiMenu is the Back action, and a menu that is the only
\* registered one is a root without parent.
C10_TrailingHelpOrBack ==
    ( everMulti /\ MenuQuiescent /\ gpMainMenu # NULL ) =>
        /\ Trailing(gpMainMenu) = HelpItem
        /\ gpMainMenu = MM => \A m \in Registered : Trailing(m) = BackItem
        /\ NumRegistered = 1 => menus[gpMainMenu].pUpper = NULL

(***************************************************************************)
(* Claims on the keystrokes                                                *)
(***************************************************************************)
\* a step of CUI_processMenuUpdate that gets past its first check
Processed == updatePending /\ ~updatePending' /\ gModuleInitialized /\ gManageUart

\* such a step that decodes its window to the command byte input
Decoded(input) ==
    /\ Processed
    /\ lastInput'.kind \notin {"failure", "bad"}
    /\ lastInput'.input = input

\* the cursor designates one of the numItems items of the current menu
CursorInMenu ==
    /\ CursorValid(menus, gpCurrMenu, gCurrMenuItemEntry)
    /\ gCurrMenuItemEntry < menus[gpCurrMenu].numItems

CurrItem == menus[gpCurrMenu].menuItems[gCurrMenuItemEntry]

\* intercept is active on the current item
InterceptOn == CurrItem.interceptable /\ CurrItem.interceptActive

\* no item of the current menu is in intercept
NoInterceptInMenu ==
    \A i \in 0..(menus[gpCurrMenu].numItems - 1) :
        ~(menus[gpCurrMenu].menuItems[i].interceptable
            /\ menus[gpCurrMenu].menuItems[i].interceptActive)

\* the menu objects and the cursor, and what one more key makes of them
Cursor == [ms |-> menus, cm |-> gpCurrMenu, idx |-> gCurrMenuItemEntry,
           prev |-> gPrevMenuItemEntry]

Press(c, input) ==
    LET r == MenuUpdate(c.ms, gpMainMenu, c.cm, c.idx, c.prev, FALSE, input, FALSE)
    IN  [ms |-> r.ms, cm |-> r.cm, idx |-> r.idx, prev |-> r.prev]

RECURSIVE PressN(_, _, _)
PressN(c, input, n) == IF n = 0 THEN c ELSE PressN(Press(c, input), input, n - 1)

\* C11: on a menu with N items and the cursor at one of them, RIGHT goes to the
\* next item and from N-1 to 0, LEFT goes to the item before and from 0 to N-1,
\* N times RIGHT and LEFT then RIGHT both come back to the starting index, and
\* the current menu stays what it is.
C11_NavigateCyclic ==
    /\ []((CursorInMenu /\ NoInterceptInMenu)
          => /\ PressN(Cursor, CUI_INPUT_RIGHT, menus[gpCurrMenu].numItems) = Cursor
             /\ Press(Press(Cursor, CUI_INPUT_LEFT), CUI_INPUT_RIGHT) = Cursor)
    /\ [][(CursorInMenu /\ ~InterceptOn)
          => LET N == menus[gpCurrMenu].numItems
                 i == gCurrMenuItemEntry
             IN  /\ Decoded(CUI_INPUT_RIGHT)
                    => /\ gpCurrMenu' = gpCurrMenu
                       /\ gCurrMenuItemEntry' = IF i = N - 1 THEN 0 ELSE i + 1
                 /\ Decoded(CUI_INPUT_LEFT)
                    => /\ gpCurrMenu' = gpCurrMenu
                       /\ gCurrMenuItemEntry' = IF i = 0 THEN N - 1 ELSE i - 1]_vars

\* a RIGHT key has just moved the cursor from the last item of a menu of three
\* to its first
C11_Witness ==
    /\ lastInput.kind = "nav" /\ lastInput.input = CUI_INPUT_RIGHT
    /\ ~updatePending
    /\ gpCurrMenu # NULL
    /\ menus[gpCurrMenu].numItems = 3
    /\ gCurrMenuItemEntry = 0

\* an item that leads to a sub-menu
IsSubMenu(it) == it.pDesc = NULL /\ it.item # NULL

\* C12: EXECUTE with the cursor (M, i) on a sub-menu item moves the cursor to
\* (the sub-menu, 0), and BACK as the next key moves it back to (M, i).
C12_ExecuteThenBack ==
    /\ []((CursorInMenu /\ IsSubMenu(CurrItem))
          => LET c == Press(Press(Cursor, CUI_INPUT_EXECUTE), CUI_INPUT_BACK)
             IN  c.cm = gpCurrMenu /\ c.idx = gCurrMenuItemEntry)
    /\ [][(CursorInMenu /\ IsSubMenu(CurrItem) /\ Decoded(CUI_INPUT_EXECUTE))
          => /\ gpCurrMenu' = CurrItem.item
             /\ gCurrMenuItemEntry' = 0
             /\ gPrevMenuItemEntry' = gCurrMenuItemEntry]_vars

\* BACK has just brought the cursor from a registered menu to the second item
\* of the Multi-Menu, the one EXECUTE had entered it from
C12_Witness ==
    /\ lastInput.kind = "nav" /\ lastInput.input = CUI_INPUT_BACK
    /\ ~updatePending
    /\ gpCurrMenu = MM
    /\ gpMainMenu = MM
    /\ gCurrMenuItemEntry = 1
    /\ gPrevMenuItemEntry = 1
    /\ IsSubMenu(menus[MM].menuItems[1])

\* C13: BACK with the cursor in the root menu (the only registered menu or the
\* Multi-Menu) leaves the current menu what it is and puts the cursor on the
\* root's last item, whatever was registered and deregistered before.
C13_BackAtRoot ==
    [][(CursorInMenu /\ ~InterceptOn /\ gpCurrMenu = gpMainMenu
           /\ Decoded(CUI_INPUT_BACK))
       => /\ gpCurrMenu' = gpCurrMenu
          /\ gCurrMenuItemEntry' = menus[gpCurrMenu].numItems - 1]_vars

\* C14: ESC decoded while no intercept is active on the current item moves the
\* cursor to the last item of the root menu, from whatever menu it is in.
C14_EscGoesHome ==
    [][(CursorValid(menus, gpCurrMenu, gCurrMenuItemEntry) /\ ~InterceptOn
           /\ Decoded(CUI_INPUT_ESC))
       => /\ gpMainMenu # NULL
          /\ gpCurrMenu' = gpMainMenu
          /\ gCurrMenuItemEntry' = menus[gpMainMenu].numItems - 1]_vars

\* ESC has just moved the cursor to the Help item of the Multi-Menu, after
\* EXECUTE had entered a registered menu from the Multi-Menu's second item
C14_Witness ==
    /\ lastInput.kind = "nav" /\ lastInput.input = CUI_INPUT_ESC
    /\ ~updatePending
    /\ gpMainMenu = MM
    /\ gpCurrMenu = MM
    /\ menus[MM].numItems = 3
    /\ gCurrMenuItemEntry = 2
    /\ gPrevMenuItemEntry = 1

\* C15: on an interceptable current item, EXECUTE with intercept off turns it
\* on and calls the handler with the START signal and not with the EXECUTE
\* key; with intercept on, EXECUTE calls it with STOP and ESC with CANCEL, and
\* both turn intercept and the cursor overlay off; none of the three moves the
\* cursor, and ESC does not go to the root.
C15_InterceptToggle ==
    [][(CursorValid(menus, gpCurrMenu, gCurrMenuItemEntry)
           /\ CurrItem.interceptable /\ CurrItem.item # NULL)
       => LET first(sig) == /\ delivered' # << >>
                            /\ delivered'[1] = << "intercept", CurrItem.item, sig >>
              stays == /\ gpCurrMenu' = gpCurrMenu
                       /\ gCurrMenuItemEntry' = gCurrMenuItemEntry
              now == menus'[gpCurrMenu].menuItems[gCurrMenuItemEntry].interceptActive
          IN  /\ (~CurrItem.interceptActive /\ Decoded(CUI_INPUT_EXECUTE))
                 => /\ now
                    /\ first(CUI_ITEM_INTERCEPT_START)
                    /\ \A n \in DOMAIN delivered' : delivered'[n][3] # CUI_INPUT_EXECUTE
                    /\ stays
              /\ (CurrItem.interceptActive /\ Decoded(CUI_INPUT_EXECUTE))
                 => /\ ~now
                    /\ ~gCursorActive'
                    /\ first(CUI_ITEM_INTERCEPT_STOP)
                    /\ stays
              /\ (CurrItem.interceptActive /\ Decoded(CUI_INPUT_ESC))
                 => /\ ~now
                    /\ ~gCursorActive'
                    /\ first(CUI_ITEM_INTERCEPT_CANCEL)
                    /\ stays]_vars

\* ESC has just ended the intercept of an item two menus below the root: the
\* handler got CANCEL and the cursor is still on the item
C15_Witness ==
    /\ lastInput.kind = "intercept" /\ lastInput.input = CUI_INPUT_ESC
    /\ ~updatePending
    /\ gpCurrMenu = MenuA2
    /\ gCurrMenuItemEntry = 0
    /\ gpMainMenu # MenuA2
    /\ ~menus[MenuA2].menuItems[0].interceptActive
    /\ ~gCursorActive
    /\ delivered # << >>
    /\ delivered[1] = << "intercept", AppIntercept, CUI_ITEM_INTERCEPT_CANCEL >>

\* C16: while intercept is active on the current item, a key other than
\* EXECUTE and ESC is given to the item's handler once, as the byte that was
\* received (an arrow as its command byte), and moves the cursor nowhere.
C16_ForwardVerbatim ==
    [][(CursorValid(menus, gpCurrMenu, gCurrMenuItemEntry) /\ InterceptOn
           /\ CurrItem.item # NULL /\ Processed
           /\ lastInput'.kind \notin {"failure", "bad"}
           /\ lastInput'.input \notin {CUI_INPUT_EXECUTE, CUI_INPUT_ESC})
       => /\ delivered' = << << "intercept", CurrItem.item,
                                IF gUartTxBuffer[0] = CUI_INPUT_ESC
                                THEN lastInput'.input ELSE gUartTxBuffer[0] >> >>
          /\ gpCurrMenu' = gpCurrMenu
          /\ gCurrMenuItemEntry' = gCurrMenuItemEntry]_vars

\* the holding buffer starts with ESC and is neither one of the four arrow
\* sequences nor ESC followed by zeros
BadWindow ==
    /\ gUartTxBuffer[0] = 27
    /\ \A third \in {65, 66, 67, 68} :
          ~(gUartTxBuffer[1] = 91 /\ gUartTxBuffer[2] = third /\ gUartTxBuffer[3] = 0)
    /\ \E i \in 1..(CUI_NUM_UART_CHARS - 1) : gUartTxBuffer[i] # 0

\* the interceptActive flag of every item
InterceptFlags(ms) ==
    [m \in DOMAIN ms |-> [i \in DOMAIN ms[m].menuItems |-> ms[m].menuItems[i].interceptActive]]

\* C17: a window that starts with ESC and is neither an arrow sequence nor the
\* bare escape is dropped: CUI_processMenuUpdate changes neither the current
\* menu nor the index nor the previous index nor any interceptActive flag,
\* calls no action and no handler, and clears the holding buffer.
C17_BadWindowDropped ==
    [][(Processed /\ (BadWindow \/ lastInput'.kind = "bad"))
       => /\ gpCurrMenu' = gpCurrMenu
          /\ gCurrMenuItemEntry' = gCurrMenuItemEntry
          /\ gPrevMenuItemEntry' = gPrevMenuItemEntry
          /\ InterceptFlags(menus') = InterceptFlags(menus)
          /\ delivered' = << >>
          /\ gUartTxBuffer' = ZeroBuffer]_vars

\* a truncated escape sequence has just been dropped while an item two menus
\* below the root was in intercept, and it still is
C17_Witness ==
    /\ lastInput.kind = "bad" /\ lastInput.input = CUI_INPUT_ESC
    /\ ~updatePending
    /\ gUartTxBuffer = ZeroBuffer
    /\ delivered = << >>
    /\ gpCurrMenu = MenuA2
    /\ gCurrMenuItemEntry = 0
    /\ menus[MenuA2].menuItems[0].interceptActive

\* the cursor after one more key
Moved(input) == [cm |-> Press(Cursor, input).cm, idx |-> Press(Cursor, input).idx]

\* C18 as stated: the escape sequence ESC [ A moves the cursor, from every
\* cursor with no intercept active, where a LEFT input moves it.
C18_EscAIsLeft ==
    [][(Processed /\ CursorValid(menus, gpCurrMenu, gCurrMenuItemEntry) /\ ~InterceptOn
           /\ gUartTxBuffer = Window(<< 27, 91, 65 >>))
       => [cm |-> gpCurrMenu', idx |-> gCurrMenuItemEntry'] = Moved(CUI_INPUT_LEFT)]_vars

\* C18, amended: the escape sequence ESC [ D moves the cursor, from every
\* cursor with no intercept active, where the command byte CUI_INPUT_LEFT
\* received as such moves it: to the item before, and from the first item to
\* the last.
C18_EscDIsLeft ==
    [][(Processed /\ CursorValid(menus, gpCurrMenu, gCurrMenuItemEntry) /\ ~InterceptOn
           /\ gUartTxBuffer \in {Window(<< 27, 91, 68 >>), Window(<< CUI_INPUT_LEFT >>)})
       => /\ [cm |-> gpCurrMenu', idx |-> gCurrMenuItemEntry'] = Moved(CUI_INPUT_LEFT)
          /\ CursorInMenu
             => /\ gpCurrMenu' = gpCurrMenu
                /\ gCurrMenuItemEntry' = IF gCurrMenuItemEntry = 0
                                         THEN menus[gpCurrMenu].numItems - 1
                                         ELSE gCurrMenuItemEntry - 1]_vars

\* ESC [ D has just moved the cursor from the first item of the Multi-Menu to
\* its last
C18_Witness ==
    /\ lastInput = [kind |-> "nav", input |-> CUI_INPUT_LEFT, raw |-> CUI_INPUT_ESC]
    /\ ~updatePending
    /\ gpCurrMenu = MM
    /\ menus[MM].numItems = 3
    /\ gCurrMenuItemEntry = 2
    /\ gPrevMenuItemEntry = 0

(***************************************************************************)
(* Claims on the status lines                                              *)
(***************************************************************************)
\* C19: CUI_statusLinePrintf by an open client on a line of its own quota that
\* was never acquired returns CUI_RESOURCE_NOT_ACQUIRED and hands no frame to
\* the serial transport.  (No call releases a line, so a line that is not
\* acquired never was.)
C19_PrintfNeverAcquired ==
    [][( /\ CallReturned
         /\ lastCall'.op = "statusLinePrintf"
         /\ lastCall'.client \in OpenHandles
         /\ lastCall'.arg \in DOMAIN gStatusLineResources[CUI_getClientIndex(lastCall'.client)]
         /\ gStatusLineResources[CUI_getClientIndex(lastCall'.client)][lastCall'.arg].status
               # CUI_ACQUIRED )
       => /\ lastCall'.ret = CUI_RESOURCE_NOT_ACQUIRED
          /\ UNCHANGED uartVars]_vars

\* C20: an acquired line j of the client in slot k has the offset
\* (sum over the slots i < k of quota_i + 1) + j, its frames are written to row
\* CUI_INITIAL_STATUS_OFFSET + that offset, and the entry of an acquired line
\* never changes.
ExpectedOffset(k, j) ==
    LET RECURSIVE Before(_)
        Before(S) == IF S = {} THEN 0
                     ELSE LET i == CHOOSE x \in S : TRUE
                          IN  gMaxStatusLines[i] + 1 + Before(S \ {i})
    IN  Before({i \in ClientSlots : i < k}) + j

Held(h) ==
    {<< k, j >> \in ClientSlots \X (0..MaxQuota) :
        /\ j \in DOMAIN gStatusLineResources[k]
        /\ gStatusLineResources[k][j].status = CUI_ACQUIRED
        /\ gStatusLineResources[k][j].clientHash = h}

\* C21: an open client holds at most as many status lines as the quota it
\* passed to CUI_clientOpen; a request that succeeds returns a line id below
\* that quota of a line that was not acquired; a request made when the client
\* holds its whole quota (or with quota 0) returns CUI_NO_ASYNC_LINES_RELEASED
\* with the line id 0xFF and changes no status line.
C21_QuotaRespected ==
    /\ [](\A h \in OpenHandles : Cardinality(Held(h)) <= quotaPassed[h])
    /\ [][(CallReturned /\ lastCall'.op = "statusLineRequest"
             /\ lastCall'.client \in OpenHandles)
          => LET h == lastCall'.client
                 k == CUI_getClientIndex(h)
             IN  /\ lastCall'.ret = CUI_SUCCESS
                    => /\ lastCall'.arg < quotaPassed[h]
                       /\ gStatusLineResources[k][lastCall'.arg].status # CUI_ACQUIRED
                 /\ Cardinality(Held(h)) >= quotaPassed[h]
                    => /\ lastCall'.ret = CUI_NO_ASYNC_LINES_RELEASED
                       /\ lastCall'.arg = InvalidLineId
                       /\ UNCHANGED gStatusLineResources]_vars

\* MAX_CLIENTS clients are open
AtCapacity == \A i \in ClientSlots : gClientHandles[i] # NULL

\* C22: with MAX_CLIENTS clients open, every further CUI_clientOpen returns
\* NULL and leaves every client slot, its handle and its quota as they were.
C22_OpenAtCapacity ==
    /\ []((gModuleInitialized /\ AtCapacity)
          => ENABLED (\E n \in OpenNames, q \in 0..MaxQuota : CUI_clientOpen(n, q)))
    /\ [][(AtCapacity /\ CallReturned /\ lastCall'.op = "clientOpen")
          => /\ lastCall'.ret = NULL
             /\ UNCHANGED << gClientHandles, gMaxStatusLines, gStatusLineResources >>]_vars

\* C23: on an initialized module with fewer than MAX_CLIENTS clients open,
\* CUI_clientOpen records the client in a free slot and returns its handle,
\* which is not zero, whatever the name, the empty name included.
C23_OpenGivesNonzero ==
    [][(gModuleInitialized /\ ~AtCapacity /\ CallReturned /\ lastCall'.op = "clientOpen")
       => /\ lastCall'.ret # NULL
          /\ \E i \in ClientSlots : /\ gClientHandles[i] = NULL
                                    /\ gClientHandles'[i] = lastCall'.ret]_vars

(***************************************************************************)
(* Claims on the serial reads and writes                                   *)
(***************************************************************************)
\* a read completion has put a command in the holding buffer, and no read is
\* outstanding
Received == ~readArmed /\ gUartTxBuffer[0] # 0

\* C24: after a read completion of at least one byte another read is armed in
\* the end, whether no menu, one menu or the Multi-Menu is registered.
C24_ReadsRearmed == Received ~> readArmed

\* a read completion: UartReadCallback
ReadCompleted == readArmed /\ ~readArmed' /\ lastCall' = lastCall

\* C25: a read completion that finds the holding buffer non-empty leaves it
\* unchanged; a completion without bytes changes neither the holding buffer
\* nor the cursor and calls no menu-update hook.
C25_HeldCommandKept ==
    [][ReadCompleted
       => /\ gUartTxBuffer # ZeroBuffer => gUartTxBuffer' = gUartTxBuffer
          /\ lastRead' = 0
             => /\ UNCHANGED << gUartTxBuffer, gpCurrMenu, gCurrMenuItemEntry,
                                gPrevMenuItemEntry, gCursorActive >>
                /\ updatePending' = updatePending]_vars

\* a step in which CUI_dispMenu formats dispBuff[currDispBuff]: it switches the
\* buffer when its CUI_writeString returns; when that never returns, the
\* CUI_registerMenu or the CUI_processMenuUpdate that called it stays blocked
DispMenuCalled ==
    \/ currDispBuff' # currDispBuff
    \/ /\ lastCall' # lastCall
       /\ lastCall'.op = "registerMenu"
       /\ lastCall'.ret = "blocked"
    \/ /\ lastInput' # lastInput
       /\ lastInput'.kind = "blocked"

\* C26: the buffer CUI_dispMenu formats into is not the buffer of a UART write
\* whose completion has not been signaled, whatever CUI_dispMenu calls and
\* write completions came before, dropped writes included.
C26_FrameBufferFree ==
    [][DispMenuCalled => DispFrame(currDispBuff) \notin uartInFlight]_vars

\* the tasks between a Semaphore_pend(gStatusSem) and the Semaphore_post that
\* follows it: in CUI_statusLinePrintf, CUI_acquireStatusLine or CUI_close
InStatusSection ==
    {t \in Tasks : pc[t] \in {"sp_write", "sp_cursor", "sp_stuck", "sa_search",
                              "sa_stuck", "cl_write", "cl_free", "cl_stuck"}}

\* C27: at most one task is inside a section of the status lock, the write of
\* CUI_close that clears the screen included, and the lock is taken only while
\* a task is inside: every return path of CUI_statusLinePrintf released it.
C27_StatusLock ==
    /\ Cardinality(InStatusSection) <= 1
    /\ gStatusSem = 0 <=> InStatusSection # {}

\* a task prints while CUI_close waits for the lock, after a print that
\* returned an error from inside the section
C27_Witness ==
    \E t, u \in Tasks :
        /\ pc[t] = "sp_write"
        /\ pc[u] = "cl_pend"
        /\ local[t].op = "statusLinePrintf"
        /\ gStatusSem = 0

(***************************************************************************)
(* Claims on the checks every call starts with                             *)
(***************************************************************************)
ButtonCalls == {"btnRequest", "btnSetCb", "btnGetValue", "btnRelease"}
LedCalls == {"ledRequest", "ledRelease"} \cup LedOps
UartCalls == {"registerMenu", "deRegisterMenu", "menuNav", "statusLineRequest",
              "statusLinePrintf"}

\* the error codes that match what is wrong with a call op made with handle h
PreconditionErrors(op, h) ==
    (IF ~gModuleInitialized THEN {CUI_MODULE_UNINITIALIZED} ELSE {})
    \cup (IF op \in ButtonCalls /\ ~gManageBtns THEN {CUI_NOT_MANAGING_BTNS} ELSE {})
    \cup (IF op \in LedCalls /\ ~gManageLeds THEN {CUI_NOT_MANAGING_LEDS} ELSE {})
    \cup (IF op \in UartCalls /\ ~gManageUart THEN {CUI_NOT_MANAGING_UART} ELSE {})
    \cup (IF h \notin OpenHandles THEN {CUI_INVALID_CLIENT_HANDLE} ELSE {})

\* C28: a call of a client-facing operation made with the module
\* uninitialized, its feature not managed, or a handle that is zero or not in
\* the client registry returns an error code that matches, and leaves the
\* button, LED and status-line tables, the menu registry, the root and the
\* cursor unchanged; so does a call made after CUI_close with a handle
\* obtained before.
C28_PreconditionErrors ==
    [][(CallReturned /\ lastCall'.op \in ButtonCalls \cup LedCalls \cup UartCalls
          /\ PreconditionErrors(lastCall'.op, lastCall'.client) # {})
       => /\ lastCall'.ret \in PreconditionErrors(lastCall'.op, lastCall'.client)
          /\ UNCHANGED << gButtonResources, gLedResources, ledState,
                          gStatusLineResources, gMenuResources, gpMainMenu, gpCurrMenu,
                          gCurrMenuItemEntry, gPrevMenuItemEntry >>]_vars

(***************************************************************************)
(* Claims on CUI_close followed by CUI_init                                *)
(***************************************************************************)
\* CUI_init returned CUI_SUCCESS in this step: the module was closed before
InitSucceeded == CallReturned /\ lastCall'.op = "init" /\ lastCall'.ret = CUI_SUCCESS

\* CUI_clientOpen returned a handle in this step
OpenSucceeded == CallReturned /\ lastCall'.op = "clientOpen" /\ lastCall'.ret # NULL

\* C29: when CUI_init succeeds after a CUI_close, no client is open, no button
\* and no LED the module manages has an owner, no slot of the menu registry is
\* taken and there is no root and no current menu; and a client that opens
\* afterwards has as its status-line quota the quota it passed to CUI_clientOpen.
C29_CloseReleasesAll ==
    [][/\ InitSucceeded
          => /\ \A i \in ClientSlots : gClientHandles'[i] = NULL
             /\ gManageBtns' => \A i \in BtnIdx : gButtonResources'[i].clientHash = NULL
             /\ gManageLeds' => \A i \in LedIdx : gLedResources'[i].clientHash = NULL
             /\ gManageUart'
                => /\ \A i \in MenuSlots : /\ gMenuResources'[i].pMenu = NULL
                                           /\ gMenuResources'[i].clientHash = NULL
                   /\ gpMainMenu' = NULL
                   /\ gpCurrMenu' = NULL
       /\ (OpenSucceeded /\ gManageUart)
          => \E i \in ClientSlots :
                /\ gClientHandles[i] = NULL
                /\ gClientHandles'[i] = lastCall'.ret
                /\ gMaxStatusLines'[i] = quotaPassed'[lastCall'.ret]]_vars

(***************************************************************************)
(* Claims on CUI_menuNav                                                   *)
(***************************************************************************)
\* the menus found from menu m through its sub-menu items, m included
RECURSIVE Below(_, _)
Below(ms, m) ==
    {m} \cup UNION {Below(ms, ms[m].menuItems[i].item) :
                      i \in {j \in 0..(ms[m].numItems - 1) :
                                /\ ms[m].menuItems[j].pDesc = NULL
                                /\ ms[m].menuItems[j].item \in DOMAIN ms}}

\* the clients that registered a root from which menu m is found
RootOwners(m) ==
    {gMenuResources[i].clientHash :
        i \in {j \in MenuSlots : /\ gMenuResources[j].pMenu \in DOMAIN menus
                                 /\ m \in Below(menus, gMenuResources[j].pMenu)}}

\* C30: CUI_menuNav of an open client moves the cursor only to a menu found
\* from a root that client registered and to an index below the item count of
\* the menu; every other call returns CUI_INVALID_PARAM, or
\* CUI_INVALID_CLIENT_HANDLE when the root belongs to another client, and
\* leaves gpCurrMenu, gCurrMenuItemEntry and gPrevMenuItemEntry unchanged,
\* also while slots of the registry are empty.
C30_MenuNavChecked ==
    [][(CallReturned /\ lastCall'.op = "menuNav" /\ lastCall'.client \in OpenHandles)
       => LET h == lastCall'.client
              m == lastCall'.arg[1]
              idx == lastCall'.arg[2]
              allowed == h \in RootOwners(m) /\ idx < menus[m].numItems
          IN  IF allowed
              THEN lastCall'.ret \in {CUI_SUCCESS, "blocked"}
                   /\ gpCurrMenu' = m /\ gCurrMenuItemEntry' = idx
              ELSE /\ lastCall'.ret = IF RootOwners(m) # {} /\ idx < menus[m].numItems
                                      THEN CUI_INVALID_CLIENT_HANDLE
                                      ELSE CUI_INVALID_PARAM
                   /\ UNCHANGED << gpCurrMenu, gCurrMenuItemEntry, gPrevMenuItemEntry >>]_vars
(***************************************************************************)
(* Claims on the cursor and the menus it visits                            *)
(***************************************************************************)
\* CUI_processMenuUpdate handled the decoded input in this step as a navigation
Navigated(input) ==
    /\ lastInput.kind = "none"
    /\ lastInput'.kind = "nav"
    /\ lastInput'.input = input

\* the last call that returned is a CUI_menuNav that succeeded, and the cursor
\* is where it put it
JustNavigatedTo(m) ==
    /\ lastCall.op = "menuNav"
    /\ lastCall.ret = CUI_SUCCESS
    /\ lastCall.arg[1] = m
    /\ gpCurrMenu = m
    /\ gCurrMenuItemEntry = lastCall.arg[2]

\* C31: after a CUI_menuNav that succeeded to a menu with a parent, a
\* Backspace that follows at once puts the cursor in the parent, on the item
\* of the parent that refers to the menu; for a registered menu below
\* cuiMultiMenu that is the entry of the menu in cuiMultiMenu.
C31_BackAfterNav ==
    [][\A m \in NavMenus :
          (JustNavigatedTo(m) /\ menus[m].pUpper # NULL /\ Navigated(CUI_INPUT_BACK))
          => /\ gpCurrMenu' = menus[m].pUpper
             /\ gCurrMenuItemEntry' < menus[gpCurrMenu'].numItems
             /\ menus[gpCurrMenu'].menuItems[gCurrMenuItemEntry'].pDesc = NULL
             /\ menus[gpCurrMenu'].menuItems[gCurrMenuItemEntry'].item = m]_vars

\* the owner of the button or LED that the call op names with index i
OwnerOf(op, i) ==
    IF op \in {"btnGetValue", "btnSetCb"} THEN gButtonResources[i].clientHash
    ELSE gLedResources[i].clientHash

\* C32: CUI_btnGetValue, CUI_btnSetCb, CUI_ledOn, CUI_ledOff, CUI_ledToggle and
\* CUI_ledBlink called by a client that does not own the button or LED return
\* an error (and so hand no pin value to the caller) and leave the tables and
\* the LED as they were.
C32_OnlyOwnerUses ==
    [][(CallReturned /\ lastCall'.op \in {"btnGetValue", "btnSetCb"} \cup LedOps
          /\ lastCall'.client # OwnerOf(lastCall'.op, lastCall'.arg))
       => /\ lastCall'.ret # CUI_SUCCESS
          /\ UNCHANGED << gButtonResources, gLedResources, ledState >>]_vars

(***************************************************************************)
(* Claims on CUI_deRegisterMenu                                            *)
(***************************************************************************)
\* no slot of the registry holds the menu m for the client h
NotRegisteredBy(h, m) ==
    \A i \in MenuSlots : ~(gMenuResources[i].clientHash = h /\ gMenuResources[i].pMenu = m)

\* CUI_deRegisterMenu of a menu that the caller, an open client, has not
\* registered returned in this step
DeregisterRefused ==
    /\ CallReturned
    /\ lastCall'.op = "deRegisterMenu"
    /\ lastCall'.client \in OpenHandles
    /\ NotRegisteredBy(lastCall'.client, lastCall'.arg)

\* a refused call leaves the registry, the menu objects, the root and the cursor
RefusedUnchanged ==
    UNCHANGED << gMenuResources, menus, gpMainMenu, gpCurrMenu, gCurrMenuItemEntry,
                 gPrevMenuItemEntry >>

\* C33 as stated: CUI_deRegisterMenu for a menu that is not registered, or
\* that another client registered, returns CUI_RESOURCE_NOT_ACQUIRED, leaves
\* gMenuSem free and changes neither registry, menu objects, root nor cursor.
C33_DeregisterRefused ==
    [][DeregisterRefused
       => /\ lastCall'.ret = CUI_RESOURCE_NOT_ACQUIRED
          /\ gMenuSem' = 1
          /\ RefusedUnchanged]_vars

\* C33 amended: for a menu that is not NULL and has a uartUpdateFn the call
\* returns CUI_RESOURCE_NOT_ACQUIRED and leaves gMenuSem free; for NULL it
\* returns CUI_INVALID_PARAM and for a menu without uartUpdateFn
\* CUI_MISSING_UART_UPDATE_FN, both without touching gMenuSem; in every case
\* registry, menu objects, root and cursor are unchanged.
C33_DeregisterRefusedAmended ==
    [][DeregisterRefused
       => LET m == lastCall'.arg
          IN  /\ RefusedUnchanged
              /\ IF m = NULL
                 THEN lastCall'.ret = CUI_INVALID_PARAM /\ UNCHANGED gMenuSem
                 ELSE IF menus[m].uartUpdateFn = NULL
                 THEN lastCall'.ret = CUI_MISSING_UART_UPDATE_FN /\ UNCHANGED gMenuSem
                 ELSE lastCall'.ret = CUI_RESOURCE_NOT_ACQUIRED /\ gMenuSem' = 1]_vars

\* "A" was refused the menu that "B" has registered while two menus are there
C33_Witness ==
    /\ lastCall.op = "deRegisterMenu"
    /\ lastCall.client = ClientA
    /\ lastCall.arg = MenuC
    /\ lastCall.ret = CUI_RESOURCE_NOT_ACQUIRED
    /\ MenuC \in Registered
    /\ gpMainMenu = MM

(***************************************************************************)
(* Claims on the locks                                                     *)
(***************************************************************************)
\* C34: every CUI_clientOpen returns with gClientsSem free, the call that
\* fails at capacity included, so that a later CUI_clientOpen does not block
\* in Semaphore_pend.
C34_ClientsLockFree ==
    [][(CallReturned /\ lastCall'.op = "clientOpen") => gClientsSem' = 1]_vars

\* C35: gUartSem is free whenever no task is inside CUI_writeString, after a
\* call that returned CUI_PREV_WRITE_UNFINISHED as well, so that a later
\* CUI_writeString passes Semaphore_pend and submits its frame.
C35_UartLockFree ==
    (\A t \in Tasks : pc[t] = "idle") => gUartSem = 1

(***************************************************************************)
(* Claims on the cursor under registration, CUI_menuNav and keys           *)
(***************************************************************************)
\* no call is held up in gMenuSem or gUartSem
NoCallHeld == gMenuSem = 1 /\ gUartSem = 1

\* C36: whenever a menu is registered (and no call is under way), the current
\* menu has at least one item and gCurrMenuItemEntry is the index of one of
\* its items.
C36_IndexInMenu ==
    (Registered # {} /\ NoCallHeld)
    => /\ gpCurrMenu # NULL
       /\ menus[gpCurrMenu].numItems >= 1
       /\ gCurrMenuItemEntry >= 0
       /\ gCurrMenuItemEntry < menus[gpCurrMenu].numItems

\* C37: whenever a menu is registered (and no call is under way), the current
\* menu is the root menu or is found from the root through sub-menu items.
C37_CurrentBelowRoot ==
    (Registered # {} /\ NoCallHeld)
    => /\ gpMainMenu \in DOMAIN menus
       /\ gpCurrMenu \in Below(menus, gpMainMenu)

\* the cursor c is on a sub-menu item
OnSubMenu(c) ==
    /\ c.cm \in DOMAIN c.ms
    /\ c.idx < c.ms[c.cm].numItems
    /\ IsSubMenu(c.ms[c.cm].menuItems[c.idx])

\* C38: from the cursor (M, i) on a sub-menu item, EXECUTE, some RIGHT moves
\* to a nested sub-menu item (S, j), EXECUTE, and then BACK restores (S, j)
\* and a second BACK restores (M, i).
C38_NestedRoundTrip ==
    (CursorInMenu /\ OnSubMenu(Cursor))
    => \A k \in 0..2 :
          LET c1 == PressN(Press(Cursor, CUI_INPUT_EXECUTE), CUI_INPUT_RIGHT, k)
              c3 == Press(Press(c1, CUI_INPUT_EXECUTE), CUI_INPUT_BACK)
              c4 == Press(c3, CUI_INPUT_BACK)
          IN  OnSubMenu(c1)
              => /\ c3.cm = c1.cm /\ c3.idx = c1.idx
                 /\ c4.cm = gpCurrMenu /\ c4.idx = gCurrMenuItemEntry

\* the items that have interceptActive set, as (menu, index)
ActiveItems ==
    {a \in UNION {{<< m, i >> : i \in DOMAIN menus[m].menuItems} : m \in DOMAIN menus} :
        menus[a[1]].menuItems[a[2]].interceptActive}

\* C39: (while no call is under way) at most one item has interceptActive set,
\* such an item is the item under the cursor, and gCursorActive is set only
\* while there is one.
C39_InterceptUnderCursor ==
    NoCallHeld
    => /\ Cardinality(ActiveItems) <= 1
       /\ \A a \in ActiveItems : a = << gpCurrMenu, gCurrMenuItemEntry >>
       /\ gCursorActive => ActiveItems # {}

(***************************************************************************)
(* Claims on concurrent status-line requests                               *)
(***************************************************************************)
\* task t marks the line it found as acquired in this step
Marks(t) == pc[t] = "sa_store" /\ pc'[t] # "sa_store"

\* C40: every status line is acquired by at most one request: a request marks
\* a line as acquired only while the line is released, so two requests with
\* the same handle never both succeed with the same line id.
C40_LineAcquiredOnce ==
    [][\A t \in Tasks :
          Marks(t) => gStatusLineResources[local[t].i][local[t].idx].status = CUI_RELEASED]_vars

====
